---- MODULE Spec2Model ----
(***************************************************************************)
(* BudgetBuddy: the client-side aggregation logic of the report page, the  *)
(* budget list and the dashboard, over the expense and budget collections  *)
(* held by the query cache.                                                *)
(*                                                                         *)
(* Representation.                                                         *)
(*  - An ISO date "YYYY-MM-DD" is the tuple <<year, month, day>>, a month  *)
(*    key "YYYY-MM" is <<year, month>> and the empty string is << >>.  The *)
(*    fields are zero padded in the source, so JavaScript's string order   *)
(*    on these strings is the lexicographic order on the tuples, and       *)
(*    slice(0, 7) / startsWith are SubSeq / prefix on the tuples.          *)
(*  - An amount is an integer number of currency units and sums are exact; *)
(*    the rounding of IEEE-754 doubles is outside the model.               *)
(*  - A quotient (percentageUsed, averageExpense) is a JavaScript number:  *)
(*    a reduced fraction, Infinity, or NaN.                                *)
(*  - null is the record Null.                                             *)
(***************************************************************************)
EXTENDS Integers, Sequences, FiniteSets, TLC

VARIABLES
    expenses,          \* data of useExpenses(): the fetched expense list
    budgets,           \* data of useBudgets(): the fetched budget list
    startDate,         \* ReportPage state
    endDate,           \* ReportPage state
    selectedCategory,  \* ReportPage state
    filterMonth,       \* BudgetList state
    selectedMonth,     \* useUIStore state
    route,             \* the route (page) shown
    theme,             \* useUIStore state
    storage,           \* local storage item 'budget-buddy-ui-store'
    loads,             \* how many times the application was loaded
    searchTerm,        \* ExpenseList state
    filterCategory,    \* ExpenseList state
    sortBy,            \* ExpenseList state
    sortOrder,         \* ExpenseList state
    form,              \* ExpenseForm field values
    payload,           \* the last expense payload sent by ExpenseForm
    server,            \* the backend's expense and budget collections
    cached,            \* the keys of the queries in the query cache
    invalidated,       \* the cached queries marked invalidated
    fetch,             \* the fetch of each list query
    mutation,          \* the mutation in progress or last settled
    toast,             \* the last notification shown
    editingBudgetId,   \* BudgetList state: the budget whose row shows the form
    budgetForm,        \* BudgetForm field values (the form that creates budgets)
    event              \* the click on an edit, cancel or delete button in the step

storeVars == <<theme, storage, loads>>
listVars == <<searchTerm, filterCategory, sortBy, sortOrder>>
formVars == <<form, payload>>
cacheVars == <<server, cached, invalidated, fetch, mutation, toast>>
modeVars == <<editingBudgetId, budgetForm>>
editVars == <<modeVars, event>>

vars == <<expenses, budgets, startDate, endDate, selectedCategory,
          filterMonth, selectedMonth, route,
          storeVars, listVars, formVars, cacheVars, editVars>>

----------------------------------------------------------------------------
(* Bounds and input domains *)

MaxExpenses == 3           \* SpecReport
MaxProgressExpenses == 2   \* SpecProgress
MaxProgressBudgets == 1
MaxRankingExpenses == 1    \* SpecRanking
MaxRankingBudgets == 3
MaxAppExpenses == 1        \* Spec
MaxAppBudgets == 1
MaxDashboardExpenses == 2 \* SpecDashboard
MaxDashboardBudgets == 2
MaxStoreExpenses == 2     \* SpecStore
MaxLoads == 2
MaxCacheExpenses == 2     \* SpecCache
MaxCacheBudgets == 1
MaxRetryExpenses == 1     \* SpecRetry
MaxRetryBudgets == 1
MaxListExpenses == 2
MaxListBudgets == 2
MaxFormExpenses == 1
MaxStoredExpenses == 2
MaxStoredBudgets == 2
MaxRecentExpenses == 6
MaxEditExpenses == 1
MaxEditBudgets == 1
MaxModeBudgets == 2
MaxFormBudgets == 2

Categories == {"Food", "Transport"}
Amounts == {1, 2}
Dates == {<<2024, 12, 15>>, <<2025, 1, 10>>, <<2025, 2, 5>>}
\* the dates typed into the report's date inputs
ReportStartDates == {<<2025, 1, 10>>}
ReportEndDates == {<<2024, 12, 15>>, <<2025, 1, 10>>}
BudgetMonths == {<<2025, 1>>, <<2025, 2>>}
BudgetDates == {<<2025, 1, 10>>, <<2025, 2, 5>>}
Limits == {0, 2, 4}

EmptyString == << >>
\* the item "all" of a month select (a key that is no month)
AllMonths == <<0>>
Null == [isNull |-> TRUE]

Expense == [amount : Amounts, category : Categories, date : Dates]
BudgetExpense == [amount : Amounts, category : Categories, date : BudgetDates]
BudgetInput == [category : Categories, monthlyLimit : Limits, month : BudgetMonths]
AppExpense == [amount : {1}, category : Categories, date : BudgetDates]
AppBudgetInput == [category : Categories, monthlyLimit : {0, 2}, month : BudgetMonths]
DashboardBudgetInput == [category : Categories, monthlyLimit : {2}, month : BudgetMonths]

----------------------------------------------------------------------------
(* JavaScript strings and numbers *)

Min(a, b) == IF a <= b THEN a ELSE b

RECURSIVE Gcd(_, _)
Gcd(a, b) == IF b = 0 THEN a ELSE Gcd(b, a % b)

\* s < t for strings: the first differing field decides, a proper prefix is less
RECURSIVE StrLess(_, _)
StrLess(s, t) ==
    IF t = << >> THEN FALSE
    ELSE IF s = << >> THEN TRUE
    ELSE IF Head(s) # Head(t) THEN Head(s) < Head(t)
    ELSE StrLess(Tail(s), Tail(t))

StrLeq(s, t) == s = t \/ StrLess(s, t)

\* String.prototype.startsWith
StartsWith(s, p) == Len(p) <= Len(s) /\ SubSeq(s, 1, Len(p)) = p

\* date.slice(0, 7): the "YYYY-MM" prefix
MonthOf(date) == SubSeq(date, 1, Min(2, Len(date)))

NaN == [kind |-> "NaN"]
Infinity == [kind |-> "Infinity"]
Num(n, d) == LET g == Gcd(n, d) IN [kind |-> "num", num |-> n \div g, den |-> d \div g]

\* faulty variant: the quotient truncated to an integer
DivideTruncating(n, d) ==
    IF d = 0 THEN (IF n = 0 THEN NaN ELSE Infinity) ELSE Num(n \div d, 1)

\* n / d for n >= 0, d >= 0
Divide(n, d) ==
    IF d = 0 THEN (IF n = 0 THEN NaN ELSE Infinity) ELSE Num(n, d)

\* x * k for an integer k > 0
Times(x, k) ==
    IF x.kind = "num" THEN Num(x.num * k, x.den) ELSE x

\* Math.min(x, k) for an integer k: NaN if x is NaN
MathMin(x, k) ==
    IF x.kind = "NaN" THEN NaN
    ELSE IF x.kind = "Infinity" THEN Num(k, 1)
    ELSE IF x.num <= k * x.den THEN x ELSE Num(k, 1)

\* the sign of x - y (0 for NaN, as Array.prototype.sort reads a NaN result)
SignOfDifference(x, y) ==
    IF x.kind = "NaN" \/ y.kind = "NaN" THEN 0
    ELSE IF x.kind = "Infinity" /\ y.kind = "Infinity" THEN 0
    ELSE IF x.kind = "Infinity" THEN 1
    ELSE IF y.kind = "Infinity" THEN -1
    ELSE LET l == x.num * y.den
             r == y.num * x.den
         IN  IF l > r THEN 1 ELSE IF l < r THEN -1 ELSE 0

Range(s) == {s[i] : i \in 1..Len(s)}

\* faulty variant: an insertion that moves an element past its equals
RECURSIVE InsertIntoUnstable(_, _, _)
InsertIntoUnstable(sorted, x, cmp) ==
    IF sorted = << >> \/ cmp[<<sorted[Len(sorted)], x>>] < 0
    THEN Append(sorted, x)
    ELSE Append(InsertIntoUnstable(SubSeq(sorted, 1, Len(sorted) - 1), x, cmp),
                sorted[Len(sorted)])

\* Array.prototype.sort(cmp): a stable sort, as an insertion sort; cmp[<<a, b>>]
\* is the sign of the comparator's result.  One step: x goes after the last
\* element that does not compare greater than it
RECURSIVE InsertInto(_, _, _)
InsertInto(sorted, x, cmp) ==
    IF sorted = << >> \/ cmp[<<sorted[Len(sorted)], x>>] <= 0
    THEN Append(sorted, x)
    ELSE Append(InsertInto(SubSeq(sorted, 1, Len(sorted) - 1), x, cmp),
                sorted[Len(sorted)])

RECURSIVE SortPrefix(_, _, _)
SortPrefix(s, n, cmp) ==
    IF n = 0 THEN << >> ELSE InsertInto(SortPrefix(s, n - 1, cmp), s[n], cmp)

ArraySort(s, cmp) == SortPrefix(s, Len(s), cmp)

\* reduce((sum, x) => sum + x.amount, 0)
RECURSIVE SumAmounts(_)
SumAmounts(s) ==
    IF s = << >> THEN 0
    ELSE SumAmounts(SubSeq(s, 1, Len(s) - 1)) + s[Len(s)].amount

RECURSIVE SumValues(_)
SumValues(s) ==
    IF s = << >> THEN 0
    ELSE SumValues(SubSeq(s, 1, Len(s) - 1)) + s[Len(s)].value

\* faulty variant: acc[key] = amount
AddToKeyOverwrite(acc, key, amount) ==
    IF \E i \in 1..Len(acc) : acc[i].name = key
    THEN [i \in 1..Len(acc) |->
             IF acc[i].name = key
             THEN [name |-> key, value |-> amount]
             ELSE acc[i]]
    ELSE Append(acc, [name |-> key, value |-> amount])

\* acc[key] = (acc[key] || 0) + amount on an object whose entries are listed in
\* insertion order (Object.entries of string keys)
AddToKey(acc, key, amount) ==
    IF \E i \in 1..Len(acc) : acc[i].name = key
    THEN [i \in 1..Len(acc) |->
             IF acc[i].name = key
             THEN [name |-> key, value |-> acc[i].value + amount]
             ELSE acc[i]]
    ELSE Append(acc, [name |-> key, value |-> amount])

----------------------------------------------------------------------------
(* Report page *)

\* faulty variant: an end date that excludes the expenses of that day
ReportMatchStrictEnd(expense, start, end, category) ==
    LET dateMatch == /\ (start = EmptyString \/ StrLeq(start, expense.date))
                     /\ (end = EmptyString \/ StrLess(expense.date, end))
        categoryMatch == category = "" \/ expense.category = category
    IN  dateMatch /\ categoryMatch

\* the filter predicate of filteredExpenses
ReportMatch(expense, start, end, category) ==
    LET dateMatch == /\ (start = EmptyString \/ StrLeq(start, expense.date))
                     /\ (end = EmptyString \/ StrLeq(expense.date, end))
        categoryMatch == category = "" \/ expense.category = category
    IN  dateMatch /\ categoryMatch

\* faulty variant: find instead of filter, only the first match is kept
RECURSIVE FilterReportFirstMatch(_, _, _, _)
FilterReportFirstMatch(E, start, end, category) ==
    IF E = << >> THEN << >>
    ELSE IF ReportMatch(Head(E), start, end, category) THEN <<Head(E)>>
    ELSE FilterReportFirstMatch(Tail(E), start, end, category)

RECURSIVE FilterReport(_, _, _, _)
FilterReport(E, start, end, category) ==
    IF E = << >> THEN << >>
    ELSE LET rest == FilterReport(SubSeq(E, 1, Len(E) - 1), start, end, category)
             last == E[Len(E)]
         IN  IF ReportMatch(last, start, end, category)
             THEN Append(rest, last) ELSE rest

filteredExpenses == FilterReport(expenses, startDate, endDate, selectedCategory)

RECURSIVE CategorySpending(_)
CategorySpending(E) ==
    IF E = << >> THEN << >>
    ELSE AddToKey(CategorySpending(SubSeq(E, 1, Len(E) - 1)),
                  E[Len(E)].category, E[Len(E)].amount)

RECURSIVE MonthlySpending(_)
MonthlySpending(E) ==
    IF E = << >> THEN << >>
    ELSE AddToKey(MonthlySpending(SubSeq(E, 1, Len(E) - 1)),
                  MonthOf(E[Len(E)].date), E[Len(E)].amount)

\* faulty variant: sort((a, b) => a.value - b.value)
ByValueAscending(entries) ==
    [p \in Range(entries) \X Range(entries) |->
        IF p[1].value > p[2].value THEN 1
        ELSE IF p[1].value < p[2].value THEN -1 ELSE 0]

\* sort((a, b) => b.value - a.value)
ByValueDescending(entries) ==
    [p \in Range(entries) \X Range(entries) |->
        IF p[2].value > p[1].value THEN 1
        ELSE IF p[2].value < p[1].value THEN -1 ELSE 0]

CategoryData(E) ==
    LET entries == CategorySpending(E)
    IN  ArraySort(entries, ByValueDescending(entries))

\* The short English month names, and their place in alphabetical order
MonthAbbrev ==
    <<"Jan", "Feb", "Mar", "Apr", "May", "Jun",
      "Jul", "Aug", "Sep", "Oct", "Nov", "Dec">>
AlphaRank ==
    [Apr |-> 1, Aug |-> 2, Dec |-> 3, Feb |-> 4, Jan |-> 5, Jul |-> 6,
     Jun |-> 7, Mar |-> 8, May |-> 9, Nov |-> 10, Oct |-> 11, Sep |-> 12]

\* new Date(key + '-01').toLocaleDateString('en-US', {month: 'short', year:
\* 'numeric'}), e.g. "Jan 2025" (in a time zone at or ahead of UTC)
MonthLabel(key) == [mon |-> MonthAbbrev[key[2]], year |-> key[1]]

\* a.localeCompare(b) on two such labels: the month name, then the year
LocaleCompareLabels(a, b) ==
    IF AlphaRank[a.mon] < AlphaRank[b.mon] THEN -1
    ELSE IF AlphaRank[a.mon] > AlphaRank[b.mon] THEN 1
    ELSE IF a.year < b.year THEN -1
    ELSE IF a.year > b.year THEN 1 ELSE 0

ByLabel(entries) ==
    [p \in Range(entries) \X Range(entries) |->
        LocaleCompareLabels(p[1].name, p[2].name)]

MonthlyData(E) ==
    LET spending == MonthlySpending(E)
        entries == [i \in 1..Len(spending) |->
                       [name |-> MonthLabel(spending[i].name),
                        value |-> spending[i].value]]
    IN  ArraySort(entries, ByLabel(entries))

\* faulty variant: the metrics without the guard for an empty list
ReportMetricsUnguarded(E) ==
    LET totalSpent == SumAmounts(E)
        categoryData == CategoryData(E)
    IN  [totalSpent |-> totalSpent,
         averageExpense |-> Divide(totalSpent, Len(E)),
         expenseCount |-> Len(E),
         categoryData |-> categoryData,
         monthlyData |-> MonthlyData(E),
         topCategory |-> IF Len(categoryData) > 0 THEN categoryData[1]
                         ELSE Null]

ReportMetrics(E) ==
    IF Len(E) = 0 THEN Null
    ELSE LET totalSpent == SumAmounts(E)
             categoryData == CategoryData(E)
         IN  [totalSpent |-> totalSpent,
              averageExpense |-> Divide(totalSpent, Len(E)),
              expenseCount |-> Len(E),
              categoryData |-> categoryData,
              monthlyData |-> MonthlyData(E),
              topCategory |-> IF Len(categoryData) > 0 THEN categoryData[1]
                              ELSE Null]

reportMetrics == ReportMetrics(filteredExpenses)

\* what the Top Category card shows
TopCategoryCard(metrics) ==
    IF metrics = Null THEN "not rendered"
    ELSE IF metrics.topCategory # Null THEN metrics.topCategory.name
    ELSE "N/A"

----------------------------------------------------------------------------
(* Budget list *)

\* faulty variant: a budget spent to the limit counted as over budget
BudgetProgressOverAtLimit(budget, E) ==
    LET categoryExpenses ==
            SelectSeq(E, LAMBDA expense :
                /\ expense.category = budget.category
                /\ StartsWith(expense.date, budget.month))
        actualSpent == SumAmounts(categoryExpenses)
        remaining == budget.monthlyLimit - actualSpent
        percentageUsed == Times(Divide(actualSpent, budget.monthlyLimit), 100)
        isOverBudget == actualSpent >= budget.monthlyLimit
    IN  budget @@ [actualSpent |-> actualSpent,
                   remaining |-> remaining,
                   percentageUsed |-> MathMin(percentageUsed, 100),
                   isOverBudget |-> isOverBudget]

\* faulty variant: the spending read from the stored spent field
BudgetProgressFromStored(budget, E) ==
    LET actualSpent == budget.spent
        remaining == budget.monthlyLimit - actualSpent
        percentageUsed == Times(Divide(actualSpent, budget.monthlyLimit), 100)
        isOverBudget == actualSpent > budget.monthlyLimit
    IN  budget @@ [actualSpent |-> actualSpent,
                   remaining |-> remaining,
                   percentageUsed |-> MathMin(percentageUsed, 100),
                   isOverBudget |-> isOverBudget]

\* faulty variant: the percentage without the cap of Math.min
BudgetProgressUncapped(budget, E) ==
    LET categoryExpenses ==
            SelectSeq(E, LAMBDA expense :
                /\ expense.category = budget.category
                /\ StartsWith(expense.date, budget.month))
        actualSpent == SumAmounts(categoryExpenses)
        remaining == budget.monthlyLimit - actualSpent
        percentageUsed == Times(Divide(actualSpent, budget.monthlyLimit), 100)
        isOverBudget == actualSpent > budget.monthlyLimit
    IN  budget @@ [actualSpent |-> actualSpent,
                   remaining |-> remaining,
                   percentageUsed |-> percentageUsed,
                   isOverBudget |-> isOverBudget]

\* the map callback of budgetsWithSpending: a budget with its spending
BudgetProgress(budget, E) ==
    LET categoryExpenses ==
            SelectSeq(E, LAMBDA expense :
                /\ expense.category = budget.category
                /\ StartsWith(expense.date, budget.month))
        actualSpent == SumAmounts(categoryExpenses)
        remaining == budget.monthlyLimit - actualSpent
        percentageUsed == Times(Divide(actualSpent, budget.monthlyLimit), 100)
        isOverBudget == actualSpent > budget.monthlyLimit
    IN  budget @@ [actualSpent |-> actualSpent,
                   remaining |-> remaining,
                   percentageUsed |-> MathMin(percentageUsed, 100),
                   isOverBudget |-> isOverBudget]

\* the sort comparator of budgetsWithSpending: month (newest first), then
\* over-budget status, then percentage used
ByBudgetRank(list) ==
    [p \in Range(list) \X Range(list) |->
        LET a == p[1]
            b == p[2]
        IN  IF a.month # b.month
            THEN (IF StrLess(b.month, a.month) THEN -1 ELSE 1)
            ELSE IF a.isOverBudget # b.isOverBudget
            THEN (IF a.isOverBudget THEN -1 ELSE 1)
            ELSE SignOfDifference(b.percentageUsed, a.percentageUsed)]

BudgetsWithSpending(B, E, month) ==
    LET shown == SelectSeq(B, LAMBDA budget :
                     month = EmptyString \/ budget.month = month)
        mapped == [i \in 1..Len(shown) |-> BudgetProgress(shown[i], E)]
    IN  ArraySort(mapped, ByBudgetRank(mapped))

budgetsWithSpending == BudgetsWithSpending(budgets, expenses, filterMonth)

\* [...new Set(list)]: the distinct elements in order of first occurrence
RECURSIVE Unique(_)
Unique(s) ==
    IF s = << >> THEN << >>
    ELSE LET rest == Unique(SubSeq(s, 1, Len(s) - 1))
         IN  IF s[Len(s)] \in Range(rest) THEN rest ELSE Append(rest, s[Len(s)])

\* sort() without a comparator: ascending string order
ByString(list) ==
    [p \in Range(list) \X Range(list) |->
        IF StrLess(p[1], p[2]) THEN -1 ELSE IF StrLess(p[2], p[1]) THEN 1 ELSE 0]

\* Array.prototype.reverse
Reverse(s) == [i \in 1..Len(s) |-> s[Len(s) + 1 - i]]

MonthName ==
    <<"January", "February", "March", "April", "May", "June", "July",
      "August", "September", "October", "November", "December">>

\* toLocaleDateString('en-US', {month: 'long', year: 'numeric'})
LongMonthLabel(key) == [mon |-> MonthName[key[2]], year |-> key[1]]

\* faulty variant: the month options without reverse(), oldest first
MonthOptionsAscending(months) ==
    LET unique == Unique(months)
        uniqueMonths == ArraySort(unique, ByString(unique))
    IN  [i \in 1..Len(uniqueMonths) |->
            [value |-> uniqueMonths[i], label |-> LongMonthLabel(uniqueMonths[i])]]

\* the month options built from a list of month keys
MonthOptions(months) ==
    LET unique == Unique(months)
        uniqueMonths == Reverse(ArraySort(unique, ByString(unique)))
    IN  [i \in 1..Len(uniqueMonths) |->
            [value |-> uniqueMonths[i], label |-> LongMonthLabel(uniqueMonths[i])]]

budgetMonthOptions == MonthOptions([i \in 1..Len(budgets) |-> budgets[i].month])

----------------------------------------------------------------------------
(* Dashboard *)

RecentCount == 5

\* faulty variant: the total budget over the budgets of every month
DashboardMetricsAllBudgets(E, B, month) ==
    LET currentMonthExpenses ==
            SelectSeq(E, LAMBDA expense : StartsWith(expense.date, month))
        totalMonthlySpend == SumAmounts(currentMonthExpenses)
        totalBudget ==
            SumValues([i \in 1..Len(B) |-> [value |-> B[i].monthlyLimit]])
    IN  [totalMonthlySpend |-> totalMonthlySpend,
         totalBudget |-> totalBudget,
         remainingBudget |-> totalBudget - totalMonthlySpend,
         categoryData |-> CategorySpending(currentMonthExpenses),
         categoriesCount |-> Cardinality({E[i].category : i \in 1..Len(E)}),
         recentExpenses |-> SubSeq(E, 1, Min(RecentCount, Len(E)))]

\* faulty variant: the spending of every month counted against the month's budgets
DashboardMetricsAllExpenses(E, B, month) ==
    LET currentMonthExpenses ==
            SelectSeq(E, LAMBDA expense : StartsWith(expense.date, month))
        totalMonthlySpend == SumAmounts(E)
        currentMonthBudgets == SelectSeq(B, LAMBDA budget : budget.month = month)
        totalBudget ==
            SumValues([i \in 1..Len(currentMonthBudgets) |->
                          [value |-> currentMonthBudgets[i].monthlyLimit]])
    IN  [totalMonthlySpend |-> totalMonthlySpend,
         totalBudget |-> totalBudget,
         remainingBudget |-> totalBudget - totalMonthlySpend,
         categoryData |-> CategorySpending(currentMonthExpenses),
         categoriesCount |-> Cardinality({E[i].category : i \in 1..Len(E)}),
         recentExpenses |-> SubSeq(E, 1, Min(RecentCount, Len(E)))]

DashboardMetrics(E, B, month) ==
    LET currentMonthExpenses ==
            SelectSeq(E, LAMBDA expense : StartsWith(expense.date, month))
        totalMonthlySpend == SumAmounts(currentMonthExpenses)
        currentMonthBudgets == SelectSeq(B, LAMBDA budget : budget.month = month)
        totalBudget ==
            SumValues([i \in 1..Len(currentMonthBudgets) |->
                          [value |-> currentMonthBudgets[i].monthlyLimit]])
    IN  [totalMonthlySpend |-> totalMonthlySpend,
         totalBudget |-> totalBudget,
         remainingBudget |-> totalBudget - totalMonthlySpend,
         categoryData |-> CategorySpending(currentMonthExpenses),
         categoriesCount |-> Cardinality({E[i].category : i \in 1..Len(E)}),
         recentExpenses |-> SubSeq(E, 1, Min(RecentCount, Len(E)))]

dashboardMetrics == DashboardMetrics(expenses, budgets, selectedMonth)

monthOptions == MonthOptions([i \in 1..Len(expenses) |-> MonthOf(expenses[i].date)])

\* the over-budget indicator of the Remaining Budget card
isOverBudget == dashboardMetrics.remainingBudget < 0

----------------------------------------------------------------------------
(* Arrays: which methods copy and which change their receiver *)

\* An array expression of a method chain over a fetched collection: val is
\* the array it evaluates to, alias tells whether that array is the fetched
\* collection itself, input is the fetched collection as the chain has left it

\* the fetched collection, as the receiver of the first method
TheArray(input) == [val |-> input, alias |-> TRUE, input |-> input]

\* a method that returns a new array: map, slice, [...new Set()], Object.entries
NewArray(a, val) == [val |-> val, alias |-> FALSE, input |-> a.input]

\* a method that rearranges its receiver and returns it: sort, reverse
InPlace(a, val) ==
    [val |-> val, alias |-> a.alias, input |-> IF a.alias THEN val ELSE a.input]

\* faulty variant: the elements that fail the test are removed from the receiver
ArrayFilterInPlace(a, kept) == InPlace(a, kept)

\* Array.prototype.filter: kept holds the elements that pass the test
ArrayFilter(a, kept) == NewArray(a, kept)

ArraySortInPlace(a, cmp) == InPlace(a, ArraySort(a.val, cmp))
ArrayReverseInPlace(a) == InPlace(a, Reverse(a.val))

----------------------------------------------------------------------------
(* Expense list *)

LowerOf == [a |-> "a", b |-> "b", A |-> "a", B |-> "b"]
LetterRank == [a |-> 1, b |-> 2]
IsUpper(c) == c # LowerOf[c]

\* String.prototype.toLowerCase
ToLowerCase(s) == [i \in 1..Len(s) |-> LowerOf[s[i]]]

\* String.prototype.includes
Includes(s, t) ==
    \E i \in 1..(Len(s) + 1) :
        i + Len(t) - 1 <= Len(s) /\ SubSeq(s, i, i + Len(t) - 1) = t

\* a.localeCompare(b): the letters decide, whatever their case; between
\* strings of the same letters the first difference in case decides, the
\* lowercase letter first
RECURSIVE LettersCompare(_, _)
LettersCompare(s, t) ==
    IF s = << >> /\ t = << >> THEN 0
    ELSE IF s = << >> THEN -1
    ELSE IF t = << >> THEN 1
    ELSE IF LetterRank[Head(s)] < LetterRank[Head(t)] THEN -1
    ELSE IF LetterRank[Head(s)] > LetterRank[Head(t)] THEN 1
    ELSE LettersCompare(Tail(s), Tail(t))

RECURSIVE CaseCompare(_, _)
CaseCompare(s, t) ==
    IF s = << >> THEN 0
    ELSE IF IsUpper(Head(s)) = IsUpper(Head(t)) THEN CaseCompare(Tail(s), Tail(t))
    ELSE IF IsUpper(Head(s)) THEN 1 ELSE -1

LocaleCompare(s, t) ==
    LET letters == LettersCompare(ToLowerCase(s), ToLowerCase(t))
    IN  IF letters # 0 THEN letters ELSE CaseCompare(s, t)

\* the filter callback of filteredAndSortedExpenses
ListMatch(expense, term, category) ==
    LET matchesSearch ==
            Includes(ToLowerCase(expense.description), ToLowerCase(term))
        matchesCategory == category = "" \/ expense.category = category
    IN  matchesSearch /\ matchesCategory

\* faulty variant: the sort order select is ignored
ByListOrderAscending(list, by, order) ==
    [p \in Range(list) \X Range(list) |->
        LET a == p[1]
            b == p[2]
        IN  IF by = "date"
            THEN (IF StrLess(a.date, b.date) THEN -1
                  ELSE IF StrLess(b.date, a.date) THEN 1 ELSE 0)
            ELSE IF by = "amount"
            THEN (IF a.amount < b.amount THEN -1
                  ELSE IF a.amount > b.amount THEN 1 ELSE 0)
            ELSE LocaleCompare(a.description, b.description)]

\* the sort callback of filteredAndSortedExpenses
ByListOrder(list, by, order) ==
    [p \in Range(list) \X Range(list) |->
        LET a == p[1]
            b == p[2]
            comparison ==
                IF by = "date"
                THEN (IF StrLess(a.date, b.date) THEN -1
                      ELSE IF StrLess(b.date, a.date) THEN 1 ELSE 0)
                ELSE IF by = "amount"
                THEN (IF a.amount < b.amount THEN -1
                      ELSE IF a.amount > b.amount THEN 1 ELSE 0)
                ELSE LocaleCompare(a.description, b.description)
        IN  IF order = "asc" THEN comparison ELSE -comparison]

FilteredAndSortedExpenses(E, term, category, by, order) ==
    LET filtered ==
            ArrayFilter(TheArray(E),
                        SelectSeq(E, LAMBDA expense :
                                         ListMatch(expense, term, category)))
    IN  ArraySortInPlace(filtered, ByListOrder(filtered.val, by, order))

filteredAndSortedExpenses ==
    FilteredAndSortedExpenses(expenses, searchTerm, filterCategory, sortBy, sortOrder)

\* the state of the inputs after the other pages have computed their views

\* filteredExpenses and reportMetrics of the report page
ReportArrays(E, start, end, category) ==
    LET filtered == ArrayFilter(TheArray(E), FilterReport(E, start, end, category))
        categoryEntries == NewArray(filtered, CategorySpending(filtered.val))
        categoryData ==
            ArraySortInPlace(NewArray(categoryEntries, categoryEntries.val),
                             ByValueDescending(categoryEntries.val))
        monthlyEntries ==
            LET spending == MonthlySpending(filtered.val)
            IN  NewArray(categoryData,
                         [i \in 1..Len(spending) |->
                             [name |-> MonthLabel(spending[i].name),
                              value |-> spending[i].value]])
        monthlyData == ArraySortInPlace(monthlyEntries, ByLabel(monthlyEntries.val))
    IN  [filteredExpenses |-> filtered.val,
         categoryData |-> categoryData.val,
         monthlyData |-> monthlyData.val,
         input |-> monthlyData.input]

\* the month options of the dashboard and of the budget list
MonthOptionArrays(list, months) ==
    LET mapped == NewArray(TheArray(list), months)
        unique == NewArray(mapped, Unique(mapped.val))
        sorted == ArraySortInPlace(unique, ByString(unique.val))
        uniqueMonths == ArrayReverseInPlace(sorted)
    IN  [uniqueMonths |-> uniqueMonths.val, input |-> uniqueMonths.input]

\* budgetsWithSpending of the budget list: the budgets and, in the map
\* callback, the expenses
BudgetArrays(B, E, month) ==
    LET shown == ArrayFilter(TheArray(B),
                             SelectSeq(B, LAMBDA budget :
                                 month = EmptyString \/ budget.month = month))
        expensesAfter(n) ==
            ArrayFilter(TheArray(E),
                        SelectSeq(E, LAMBDA expense :
                            /\ expense.category = shown.val[n].category
                            /\ StartsWith(expense.date, shown.val[n].month)))
        mapped == NewArray(shown, [i \in 1..Len(shown.val) |->
                                      BudgetProgress(shown.val[i], E)])
        sorted == ArraySortInPlace(mapped, ByBudgetRank(mapped.val))
    IN  [budgetsWithSpending |-> sorted.val,
         budgets |-> sorted.input,
         expenses |-> IF Len(shown.val) = 0 THEN E
                      ELSE expensesAfter(Len(shown.val)).input]

\* dashboardMetrics of the dashboard
DashboardArrays(E, B, month) ==
    LET currentMonthExpenses ==
            ArrayFilter(TheArray(E),
                        SelectSeq(E, LAMBDA expense : StartsWith(expense.date, month)))
        currentMonthBudgets ==
            ArrayFilter(TheArray(B), SelectSeq(B, LAMBDA budget : budget.month = month))
        categories ==
            NewArray(TheArray(currentMonthExpenses.input),
                     [i \in 1..Len(E) |-> E[i].category])
        recentExpenses ==
            NewArray(TheArray(categories.input), SubSeq(E, 1, Min(RecentCount, Len(E))))
    IN  [currentMonthExpenses |-> currentMonthExpenses.val,
         currentMonthBudgets |-> currentMonthBudgets.val,
         recentExpenses |-> recentExpenses.val,
         expenses |-> recentExpenses.input,
         budgets |-> currentMonthBudgets.input]

----------------------------------------------------------------------------
(* Operations *)

\* today's date, new Date().toISOString().split('T')[0]
Today == <<2025, 2, 5>>

\* the default values of the expense form
DefaultForm ==
    [description |-> EmptyString, amount |-> EmptyString, category |-> "",
     date |-> Today]

\* useState<number | null>(null): no budget id (the ids start at 1)
NoId == 0

\* no button is clicked in the step
NoEvent == [name |-> "", resource |-> "", id |-> 0, confirmed |-> FALSE]

\* the default values of the budget form; month is the store's selectedMonth
DefaultBudgetForm(month) ==
    [category |-> "", monthlyLimit |-> EmptyString, month |-> month]

\* faulty variant: every field of the store is persisted
PartializeAll(state) == state

\* partialize of the persist middleware: what is written to local storage
Partialize(state) == [theme |-> state.theme]

Resources == {"expenses", "budgets"}

\* a list query that is not fetching
IdleFetch == [status |-> "idle", failureCount |-> 0, response |-> Null]

\* no mutation was started yet
IdleMutation ==
    [status |-> "idle", resource |-> "", kind |-> "", sent |-> 0,
     failureCount |-> 0, data |-> Null]

Routes == {"/", "/expenses", "/budget", "/report"}

\* new Date().toISOString().slice(0, 7) when the store is created
CurrentMonth == <<2025, 2>>

\* the expense query's data gains a record the backend now returns (records
\* are appended by the backend)
LoadExpense(e) ==
    /\ expenses' = Append(expenses, e)
    /\ UNCHANGED <<budgets, startDate, endDate, selectedCategory,
                   filterMonth, selectedMonth, route>>
    /\ UNCHANGED <<storeVars, listVars, formVars, modeVars, cacheVars>>
    /\ event' = NoEvent

\* the budget query's data gains a record; the backend numbers the records
\* and the service stores spent: 0
LoadBudget(b) ==
    /\ budgets' = Append(budgets,
                         [id |-> Len(budgets) + 1,
                          category |-> b.category,
                          monthlyLimit |-> b.monthlyLimit,
                          month |-> b.month,
                          spent |-> 0])
    /\ UNCHANGED <<expenses, startDate, endDate, selectedCategory,
                   filterMonth, selectedMonth, route>>
    /\ UNCHANGED <<storeVars, listVars, formVars, modeVars, cacheVars>>
    /\ event' = NoEvent

\* a navbar link: the page left is unmounted and its useState is discarded
Navigate(to) ==
    /\ to # route
    /\ route' = to
    /\ startDate' = EmptyString
    /\ endDate' = EmptyString
    /\ selectedCategory' = ""
    /\ filterMonth' = EmptyString
    /\ searchTerm' = EmptyString
    /\ filterCategory' = ""
    /\ sortBy' = "date"
    /\ sortOrder' = "desc"
    /\ form' = DefaultForm
    /\ editingBudgetId' = NoId
    /\ budgetForm' = DefaultBudgetForm(selectedMonth)
    /\ event' = NoEvent
    /\ UNCHANGED <<expenses, budgets, selectedMonth, storeVars, payload, cacheVars>>

SetStartDate(d) ==
    /\ route = "/report"
    /\ startDate' = d
    /\ UNCHANGED <<expenses, budgets, endDate, selectedCategory,
                   filterMonth, selectedMonth, route>>
    /\ UNCHANGED <<storeVars, listVars, formVars, modeVars, cacheVars>>
    /\ event' = NoEvent

SetEndDate(d) ==
    /\ route = "/report"
    /\ endDate' = d
    /\ UNCHANGED <<expenses, budgets, startDate, selectedCategory,
                   filterMonth, selectedMonth, route>>
    /\ UNCHANGED <<storeVars, listVars, formVars, modeVars, cacheVars>>
    /\ event' = NoEvent

SetSelectedCategory(value) ==
    /\ route = "/report"
    /\ selectedCategory' = (IF value = "all" THEN "" ELSE value)
    /\ UNCHANGED <<expenses, budgets, startDate, endDate,
                   filterMonth, selectedMonth, route>>
    /\ UNCHANGED <<storeVars, listVars, formVars, modeVars, cacheVars>>
    /\ event' = NoEvent

clearFilters ==
    /\ route = "/report"
    /\ startDate' = EmptyString
    /\ endDate' = EmptyString
    /\ selectedCategory' = ""
    /\ UNCHANGED <<expenses, budgets, filterMonth, selectedMonth, route>>
    /\ UNCHANGED <<storeVars, listVars, formVars, modeVars, cacheVars>>
    /\ event' = NoEvent

\* the month select of the budget list: "all" or one of its month options
SetFilterMonth(value) ==
    /\ route = "/budget"
    /\ \/ value = AllMonths
       \/ \E i \in 1..Len(budgetMonthOptions) : budgetMonthOptions[i].value = value
    /\ filterMonth' = (IF value = AllMonths THEN EmptyString ELSE value)
    /\ UNCHANGED <<expenses, budgets, startDate, endDate, selectedCategory,
                   selectedMonth, route>>
    /\ UNCHANGED <<storeVars, listVars, formVars, modeVars, cacheVars>>
    /\ event' = NoEvent

\* the Clear button, rendered while a month is selected
ClearFilterMonth ==
    /\ route = "/budget"
    /\ filterMonth # EmptyString
    /\ filterMonth' = EmptyString
    /\ UNCHANGED <<expenses, budgets, startDate, endDate, selectedCategory,
                   selectedMonth, route>>
    /\ UNCHANGED <<storeVars, listVars, formVars, modeVars, cacheVars>>
    /\ event' = NoEvent

\* the month select of the dashboard: one of its month options
SetSelectedMonth(value) ==
    /\ route = "/"
    /\ \E i \in 1..Len(monthOptions) : monthOptions[i].value = value
    /\ selectedMonth' = value
    /\ storage' = Partialize([theme |-> theme, selectedMonth |-> value])
    /\ UNCHANGED <<expenses, budgets, startDate, endDate, selectedCategory,
                   filterMonth, route>>
    /\ UNCHANGED <<theme, loads, listVars, formVars, modeVars, cacheVars>>
    /\ event' = NoEvent

Themes == {"light", "dark", "system"}

\* the theme select of the navbar; the persist middleware writes the
\* partialized state on every set
SetTheme(t) ==
    /\ theme' = t
    /\ storage' = Partialize([theme |-> t, selectedMonth |-> selectedMonth])
    /\ UNCHANGED <<expenses, budgets, startDate, endDate, selectedCategory,
                   filterMonth, selectedMonth, route>>
    /\ UNCHANGED <<loads, listVars, formVars, modeVars, cacheVars>>
    /\ event' = NoEvent

\* the state of the store after creation and rehydration: the initial state
\* with the stored fields merged over it
Rehydrated(stored) ==
    LET initial == [theme |-> "system", selectedMonth |-> CurrentMonth]
    IN  IF stored = Null THEN initial
        ELSE [f \in DOMAIN initial |->
                 IF f \in DOMAIN stored THEN stored[f] ELSE initial[f]]

\* the page is reloaded: component state and the query cache start afresh, the
\* store is created again and rehydrated from local storage
Reload ==
    /\ loads < MaxLoads
    /\ loads' = loads + 1
    /\ theme' = Rehydrated(storage).theme
    /\ selectedMonth' = Rehydrated(storage).selectedMonth
    /\ expenses' = << >>
    /\ budgets' = << >>
    /\ startDate' = EmptyString
    /\ endDate' = EmptyString
    /\ selectedCategory' = ""
    /\ filterMonth' = EmptyString
    /\ searchTerm' = EmptyString
    /\ filterCategory' = ""
    /\ sortBy' = "date"
    /\ sortOrder' = "desc"
    /\ form' = DefaultForm
    /\ editingBudgetId' = NoId
    /\ budgetForm' = DefaultBudgetForm(selectedMonth')
    /\ event' = NoEvent
    /\ cached' = {}
    /\ invalidated' = {}
    /\ fetch' = [r \in Resources |-> IdleFetch]
    /\ mutation' = IdleMutation
    /\ toast' = Null
    /\ UNCHANGED <<route, storage, payload, server>>

----------------------------------------------------------------------------
(* Query cache: queries, mutations and the backend *)

pageVars == <<startDate, endDate, selectedCategory, filterMonth, selectedMonth, route>>

\* the records the mutations of the cache specifications send
CacheExpense ==
    {[amount |-> 1, category |-> "Food", date |-> <<2025, 1, 10>>],
     [amount |-> 2, category |-> "Transport", date |-> <<2025, 2, 5>>]}
CacheBudgetInput ==
    {[category |-> "Food", monthlyLimit |-> 2, month |-> <<2025, 1>>],
     [category |-> "Food", monthlyLimit |-> 4, month |-> <<2025, 1>>]}

\* EXPENSE_KEYS / BUDGET_KEYS
AllKey(r) == <<r>>
ListKey(r) == <<r, "list">>
FilteredListKey(r) == <<r, "list", "filters">>
DetailKey(r, id) == <<r, "detail", id>>

\* the keys of the exported query hooks besides the two list queries
OtherKeys == {FilteredListKey("expenses"), DetailKey("budgets", 1)}

\* retry: 3 of useExpenses / useBudgets, and the default of useMutation
QueryRetry == 3
MutationRetry == 0

\* faulty variant: one attempt more than configured
ShouldRetryOnceMore(failureCount, retry) == failureCount <= retry

\* the retryer: another attempt while fewer than retry attempts have failed
ShouldRetry(failureCount, retry) == failureCount < retry

\* faulty variant: only the query with exactly the given key matches
MatchesExactly(queryKey, filterKey) == queryKey = filterKey

\* invalidateQueries({ queryKey }): a query matches if its key starts with it
Matches(queryKey, filterKey) == StartsWith(queryKey, filterKey)

\* a fetch that has just been started
StartedFetch == [status |-> "fetching", failureCount |-> 0, response |-> Null]

\* faulty variant: a fetch already in flight is left to complete
RefetchKeepingInFlight(f) == IF f.status = "fetching" THEN f ELSE StartedFetch

\* the refetch of an invalidated active query: a fetch in flight is cancelled
\* and a new one is started
Refetch(f) == StartedFetch

\* is the list query of resource r observed by the page shown
Active(r) ==
    IF r = "expenses" THEN TRUE ELSE route \in {"/", "/budget", "/report"}

\* the page mounts and its list query, not yet in the cache, starts fetching
MountQuery(r) ==
    /\ Active(r)
    /\ ListKey(r) \notin cached
    /\ cached' = cached \cup {ListKey(r)}
    /\ fetch' = [fetch EXCEPT ![r] = StartedFetch]
    /\ UNCHANGED <<expenses, budgets, pageVars, storeVars, listVars, formVars, modeVars>>
    /\ event' = NoEvent
    /\ UNCHANGED <<server, invalidated, mutation, toast>>

\* a caller of one of the other exported query hooks puts its query in the cache
ObserveQuery(key) ==
    /\ key \notin cached
    /\ cached' = cached \cup {key}
    /\ UNCHANGED <<expenses, budgets, pageVars, storeVars, listVars, formVars, modeVars>>
    /\ event' = NoEvent
    /\ UNCHANGED <<server, invalidated, fetch, mutation, toast>>

\* the backend answers the request of a fetch with its collection
ServerAnswers(r) ==
    /\ fetch[r].status = "fetching"
    /\ fetch[r].response = Null
    /\ fetch' = [fetch EXCEPT ![r].response = [data |-> server[r]]]
    /\ UNCHANGED <<expenses, budgets, pageVars, storeVars, listVars, formVars, modeVars>>
    /\ event' = NoEvent
    /\ UNCHANGED <<server, cached, invalidated, mutation, toast>>

\* the answer arrives: it becomes the query's data
FetchSucceeds(r) ==
    /\ fetch[r].status = "fetching"
    /\ fetch[r].response # Null
    /\ expenses' = IF r = "expenses" THEN fetch[r].response.data ELSE expenses
    /\ budgets' = IF r = "budgets" THEN fetch[r].response.data ELSE budgets
    /\ fetch' = [fetch EXCEPT ![r] = [status |-> "success", failureCount |-> 0,
                                      response |-> Null]]
    /\ invalidated' = invalidated \ {ListKey(r)}
    /\ UNCHANGED <<pageVars, storeVars, listVars, formVars, modeVars>>
    /\ event' = NoEvent
    /\ UNCHANGED <<server, cached, mutation, toast>>

\* a request of a fetch fails: it is retried, or the error is surfaced
FetchFails(r) ==
    /\ fetch[r].status = "fetching"
    /\ fetch' = [fetch EXCEPT ![r] =
                    [status |-> IF ShouldRetry(fetch[r].failureCount, QueryRetry)
                                THEN "fetching" ELSE "error",
                     failureCount |-> fetch[r].failureCount + 1,
                     response |-> Null]]
    /\ UNCHANGED <<expenses, budgets, pageVars, storeVars, listVars, formVars, modeVars>>
    /\ event' = NoEvent
    /\ UNCHANGED <<server, cached, invalidated, mutation, toast>>

IdsOf(list) == {list[i].id : i \in 1..Len(list)}

\* the id the backend gives a new record: the smallest one not in use
NextId(list) ==
    CHOOSE n \in 1..(Len(list) + 1) :
        n \notin IdsOf(list) /\ \A k \in 1..(n - 1) : k \in IdsOf(list)

\* the backend's collection after a create (POST), update (PATCH) or delete
Apply(list, kind, data) ==
    IF kind = "create" THEN Append(list, [id |-> NextId(list)] @@ data)
    ELSE IF kind = "update"
    THEN [i \in 1..Len(list) |->
             IF list[i].id = data.id
             THEN [f \in DOMAIN list[i] |->
                      IF f \in DOMAIN data.data THEN data.data[f] ELSE list[i][f]]
             ELSE list[i]]
    ELSE SelectSeq(list, LAMBDA x : x.id # data)

\* the cached queries the onSuccess of a mutation invalidates
InvalidatedBy(r, kind, data) ==
    {k \in cached :
        \/ Matches(k, AllKey(r))
        \/ kind = "update" /\ Matches(k, DetailKey(r, data.id))}

\* a page calls mutateAsync of a mutation hook
StartMutation(r, kind, data) ==
    /\ mutation.status # "pending"
    /\ route = (IF r = "expenses" THEN "/expenses" ELSE "/budget")
    /\ mutation' = [status |-> "pending", resource |-> r, kind |-> kind,
                    sent |-> 1, failureCount |-> 0, data |-> data]
    /\ UNCHANGED <<expenses, budgets, pageVars, storeVars, listVars, formVars, modeVars>>
    /\ event' = NoEvent
    /\ UNCHANGED <<server, cached, invalidated, fetch, toast>>

\* the backend applies the mutation and answers; onSuccess invalidates the
\* queries of the resource, which refetches the active list query, and shows
\* a notification; the form that created a record is reset, and the budget
\* list leaves edit mode after an update (onSuccess of the edit form)
MutationSucceeds ==
    /\ mutation.status = "pending"
    /\ LET r == mutation.resource
       IN  /\ server' = [server EXCEPT
                           ![r] = Apply(server[r], mutation.kind, mutation.data)]
           /\ invalidated' = invalidated
                                \cup InvalidatedBy(r, mutation.kind, mutation.data)
           /\ fetch' = IF Active(r) /\ ListKey(r) \in cached
                       THEN [fetch EXCEPT ![r] = Refetch(fetch[r])]
                       ELSE fetch
           /\ toast' = [kind |-> "success", resource |-> r, action |-> mutation.kind]
           /\ form' = IF r = "expenses" /\ mutation.kind = "create"
                      THEN DefaultForm ELSE form
           /\ budgetForm' = IF r = "budgets" /\ mutation.kind = "create"
                            THEN DefaultBudgetForm(selectedMonth) ELSE budgetForm
           /\ editingBudgetId' = IF r = "budgets" /\ mutation.kind = "update"
                                 THEN NoId ELSE editingBudgetId
    /\ mutation' = [mutation EXCEPT !.status = "success", !.data = Null]
    /\ UNCHANGED <<expenses, budgets, pageVars, storeVars, listVars, payload, cached>>
    /\ event' = NoEvent

\* faulty variant: the form calls onSuccess although the request failed
MutationFailsLeavingEditMode ==
    /\ mutation.status = "pending"
    /\ mutation' = [mutation EXCEPT !.status = "error", !.data = Null,
                                    !.failureCount = @ + 1]
    /\ toast' = [kind |-> "error", resource |-> mutation.resource,
                 action |-> mutation.kind]
    /\ editingBudgetId' = NoId
    /\ budgetForm' = DefaultBudgetForm(selectedMonth)
    /\ event' = NoEvent
    /\ UNCHANGED <<expenses, budgets, pageVars, storeVars, listVars, formVars>>
    /\ UNCHANGED <<server, cached, invalidated, fetch>>

\* the request of the mutation fails: onError shows a notification
MutationFails ==
    /\ mutation.status = "pending"
    /\ IF ShouldRetry(mutation.failureCount, MutationRetry)
       THEN /\ mutation' = [mutation EXCEPT !.sent = @ + 1, !.failureCount = @ + 1]
            /\ toast' = toast
       ELSE /\ mutation' = [mutation EXCEPT !.status = "error", !.data = Null,
                                            !.failureCount = @ + 1]
            /\ toast' = [kind |-> "error", resource |-> mutation.resource,
                         action |-> mutation.kind]
    /\ UNCHANGED <<expenses, budgets, pageVars, storeVars, listVars, formVars, modeVars>>
    /\ event' = NoEvent
    /\ UNCHANGED <<server, cached, invalidated, fetch>>

\* the application opened on page r while the backend holds the collections db
InitWith(r, db) ==
    /\ expenses = << >>
    /\ budgets = << >>
    /\ startDate = EmptyString
    /\ endDate = EmptyString
    /\ selectedCategory = ""
    /\ filterMonth = EmptyString
    /\ selectedMonth = CurrentMonth
    /\ route = r
    /\ theme = "system"
    /\ storage = Null
    /\ loads = 1
    /\ searchTerm = EmptyString
    /\ filterCategory = ""
    /\ sortBy = "date"
    /\ sortOrder = "desc"
    /\ form = DefaultForm
    /\ payload = Null
    /\ editingBudgetId = NoId
    /\ budgetForm = DefaultBudgetForm(CurrentMonth)
    /\ event = NoEvent
    /\ server = db
    /\ cached = {}
    /\ invalidated = {}
    /\ fetch = [r2 \in Resources |-> IdleFetch]
    /\ mutation = IdleMutation
    /\ toast = Null

\* the application opened on page r with an empty backend
InitAt(r) == InitWith(r, [expenses |-> << >>, budgets |-> << >>])

\* the application opened at any of its routes
Init == \E r \in Routes : InitAt(r)

AppLoadExpense ==
    \E e \in AppExpense : Len(expenses) < MaxAppExpenses /\ LoadExpense(e)
AppLoadBudget ==
    \E b \in AppBudgetInput : Len(budgets) < MaxAppBudgets /\ LoadBudget(b)
AppNavigate == \E to \in Routes : Navigate(to)
ReportSetStartDate ==
    \E d \in ReportStartDates \cup {EmptyString} : SetStartDate(d)
ReportSetEndDate ==
    \E d \in ReportEndDates \cup {EmptyString} : SetEndDate(d)
ReportSetCategory == \E c \in Categories \cup {"all"} : SetSelectedCategory(c)
BudgetSetFilterMonth == \E m \in BudgetMonths \cup {AllMonths} : SetFilterMonth(m)
DashboardSetSelectedMonth == \E m \in BudgetMonths : SetSelectedMonth(m)

Next ==
    \/ AppLoadExpense
    \/ AppLoadBudget
    \/ AppNavigate
    \/ ReportSetStartDate
    \/ ReportSetEndDate
    \/ ReportSetCategory
    \/ clearFilters
    \/ BudgetSetFilterMonth
    \/ ClearFilterMonth
    \/ DashboardSetSelectedMonth

\* The whole application over small collections
Spec == Init /\ [][Next]_vars

\* The report page over a growing expense collection
ReportLoadExpense ==
    \E e \in Expense : Len(expenses) < MaxExpenses /\ LoadExpense(e)

NextReport ==
    \/ ReportLoadExpense
    \/ ReportSetStartDate
    \/ ReportSetEndDate
    \/ ReportSetCategory
    \/ clearFilters

SpecReport == InitAt("/report") /\ [][NextReport]_vars

\* The budget page: the progress of a budget over a growing expense collection
ProgressLoadExpense ==
    \E e \in BudgetExpense : Len(expenses) < MaxProgressExpenses /\ LoadExpense(e)
ProgressLoadBudget ==
    \E b \in BudgetInput : Len(budgets) < MaxProgressBudgets /\ LoadBudget(b)

NextProgress ==
    \/ ProgressLoadExpense
    \/ ProgressLoadBudget
    \/ BudgetSetFilterMonth
    \/ ClearFilterMonth

SpecProgress == InitAt("/budget") /\ [][NextProgress]_vars

\* The budget page: the ranking of several budgets
RankingLoadExpense ==
    \E e \in BudgetExpense : Len(expenses) < MaxRankingExpenses /\ LoadExpense(e)
RankingLoadBudget ==
    \E b \in BudgetInput : Len(budgets) < MaxRankingBudgets /\ LoadBudget(b)

NextRanking ==
    \/ RankingLoadExpense
    \/ RankingLoadBudget
    \/ BudgetSetFilterMonth
    \/ ClearFilterMonth

SpecRanking == InitAt("/budget") /\ [][NextRanking]_vars

\* The dashboard over growing expense and budget collections
DashboardLoadExpense ==
    \E e \in BudgetExpense : Len(expenses) < MaxDashboardExpenses /\ LoadExpense(e)
DashboardLoadBudget ==
    \E b \in DashboardBudgetInput :
        Len(budgets) < MaxDashboardBudgets /\ LoadBudget(b)

NextDashboard ==
    \/ DashboardLoadExpense
    \/ DashboardLoadBudget
    \/ DashboardSetSelectedMonth

SpecDashboard == InitAt("/") /\ [][NextDashboard]_vars
\* The budget list and the dashboard over budgets with a stored spent field
StoredExpense == [amount : Amounts, category : {"Food"}, date : BudgetDates]
StoredLoadExpense ==
    \E e \in StoredExpense : Len(expenses) < MaxStoredExpenses /\ LoadExpense(e)
StoredLoadBudget ==
    \E b \in DashboardBudgetInput :
        Len(budgets) < MaxStoredBudgets /\ LoadBudget(b)

NextStored ==
    \/ StoredLoadExpense
    \/ StoredLoadBudget
    \/ DashboardSetSelectedMonth

SpecStored == InitAt("/") /\ [][NextStored]_vars

\* The dashboard over a collection longer than its recent list
RecentExpense == [amount : {1}, category : {"Food"}, date : BudgetDates]
RecentLoadExpense ==
    \E e \in RecentExpense : Len(expenses) < MaxRecentExpenses /\ LoadExpense(e)

NextRecent ==
    \/ RecentLoadExpense
    \/ DashboardSetSelectedMonth

SpecRecent == InitAt("/") /\ [][NextRecent]_vars


\* The UI store with its persistence across reloads
StoreLoadExpense ==
    \E e \in BudgetExpense : Len(expenses) < MaxStoreExpenses /\ LoadExpense(e)
StoreSetTheme == \E t \in Themes : SetTheme(t)

NextStore ==
    \/ StoreLoadExpense
    \/ DashboardSetSelectedMonth
    \/ StoreSetTheme
    \/ Reload

SpecStore == InitAt("/") /\ [][NextStore]_vars

\* The query cache: invalidation and refetch after mutations
CacheMount == \E r \in Resources : MountQuery(r)
CacheObserve == \E key \in OtherKeys : ObserveQuery(key)
CacheServerAnswers == \E r \in Resources : ServerAnswers(r)
CacheFetchSucceeds == \E r \in Resources : FetchSucceeds(r)
CacheCreateExpense ==
    \E e \in CacheExpense :
        /\ Len(server.expenses) < MaxCacheExpenses
        /\ StartMutation("expenses", "create", e)
CacheDeleteExpense ==
    \E id \in IdsOf(server.expenses) : StartMutation("expenses", "delete", id)
CacheCreateBudget ==
    \E b \in CacheBudgetInput :
        /\ Len(server.budgets) < MaxCacheBudgets
        /\ StartMutation("budgets", "create", b @@ [spent |-> 0])
CacheUpdateBudget ==
    \E id \in IdsOf(server.budgets), b \in CacheBudgetInput :
        StartMutation("budgets", "update", [id |-> id, data |-> b])
CacheDeleteBudget ==
    \E id \in IdsOf(server.budgets) : StartMutation("budgets", "delete", id)

NextCache ==
    \/ CacheMount
    \/ CacheObserve
    \/ CacheServerAnswers
    \/ CacheFetchSucceeds
    \/ CacheCreateExpense
    \/ CacheDeleteExpense
    \/ CacheCreateBudget
    \/ CacheUpdateBudget
    \/ CacheDeleteBudget
    \/ MutationSucceeds
    \/ MutationFails

SpecCache ==
    /\ InitAt("/expenses") \/ InitAt("/budget")
    /\ [][NextCache]_vars

\* The query cache: failing requests
RetryFetchFails == \E r \in Resources : FetchFails(r)
RetryCreateExpense ==
    \E e \in CacheExpense :
        /\ Len(server.expenses) < MaxRetryExpenses
        /\ StartMutation("expenses", "create", e)
RetryDeleteExpense ==
    \E id \in IdsOf(server.expenses) : StartMutation("expenses", "delete", id)
RetryCreateBudget ==
    \E b \in CacheBudgetInput :
        /\ Len(server.budgets) < MaxRetryBudgets
        /\ StartMutation("budgets", "create", b @@ [spent |-> 0])
RetryUpdateBudget ==
    \E id \in IdsOf(server.budgets), b \in CacheBudgetInput :
        StartMutation("budgets", "update", [id |-> id, data |-> b])
RetryDeleteBudget ==
    \E id \in IdsOf(server.budgets) : StartMutation("budgets", "delete", id)

NextRetry ==
    \/ CacheMount
    \/ CacheServerAnswers
    \/ CacheFetchSucceeds
    \/ RetryFetchFails
    \/ RetryCreateExpense
    \/ RetryDeleteExpense
    \/ RetryCreateBudget
    \/ RetryUpdateBudget
    \/ RetryDeleteBudget
    \/ MutationSucceeds
    \/ MutationFails

SpecRetry ==
    /\ InitAt("/expenses") \/ InitAt("/budget")
    /\ [][NextRetry]_vars

\* The expense list: its search box, category select and sort selects
SetSearchTerm(value) ==
    /\ route = "/expenses"
    /\ searchTerm' = value
    /\ UNCHANGED <<expenses, budgets, pageVars, storeVars, formVars, modeVars, cacheVars>>
    /\ event' = NoEvent
    /\ UNCHANGED <<filterCategory, sortBy, sortOrder>>

SetFilterCategory(value) ==
    /\ route = "/expenses"
    /\ filterCategory' = (IF value = "all" THEN "" ELSE value)
    /\ UNCHANGED <<expenses, budgets, pageVars, storeVars, formVars, modeVars, cacheVars>>
    /\ event' = NoEvent
    /\ UNCHANGED <<searchTerm, sortBy, sortOrder>>

SetSortBy(value) ==
    /\ route = "/expenses"
    /\ sortBy' = value
    /\ UNCHANGED <<expenses, budgets, pageVars, storeVars, formVars, modeVars, cacheVars>>
    /\ event' = NoEvent
    /\ UNCHANGED <<searchTerm, filterCategory, sortOrder>>

SetSortOrder(value) ==
    /\ route = "/expenses"
    /\ sortOrder' = value
    /\ UNCHANGED <<expenses, budgets, pageVars, storeVars, formVars, modeVars, cacheVars>>
    /\ event' = NoEvent
    /\ UNCHANGED <<searchTerm, filterCategory, sortBy>>

\* clearFilters of the expense list
ClearListFilters ==
    /\ route = "/expenses"
    /\ searchTerm' = EmptyString
    /\ filterCategory' = ""
    /\ sortBy' = "date"
    /\ sortOrder' = "desc"
    /\ UNCHANGED <<expenses, budgets, pageVars, storeVars, formVars, modeVars, cacheVars>>
    /\ event' = NoEvent

\* the expenses and search terms of the list specification
ListExpense ==
    {[description |-> <<"a", "b">>, amount |-> 2, category |-> "Food",
      date |-> <<2025, 1, 10>>],
     [description |-> <<"B">>, amount |-> 1, category |-> "Transport",
      date |-> <<2025, 2, 5>>],
     [description |-> <<"A", "b">>, amount |-> 1, category |-> "Food",
      date |-> <<2025, 2, 5>>],
     [description |-> <<"b">>, amount |-> 2, category |-> "Transport",
      date |-> <<2025, 1, 10>>]}
SearchTerms == {EmptyString, <<"a">>, <<"B">>}

ListLoadExpense ==
    \E e \in ListExpense : Len(expenses) < MaxListExpenses /\ LoadExpense(e)
ListLoadBudget ==
    \E b \in DashboardBudgetInput :
        /\ Active("budgets")
        /\ Len(budgets) < MaxListBudgets
        /\ LoadBudget(b)
ListSetSearchTerm == \E t \in SearchTerms : SetSearchTerm(t)
ListSetFilterCategory == \E c \in Categories \cup {"all"} : SetFilterCategory(c)
ListSetSortBy == \E by \in {"date", "amount", "description"} : SetSortBy(by)
ListSetSortOrder == \E order \in {"asc", "desc"} : SetSortOrder(order)

NextList ==
    \/ ListLoadExpense
    \/ ListLoadBudget
    \/ ListSetSearchTerm
    \/ ListSetFilterCategory
    \/ ListSetSortBy
    \/ ListSetSortOrder
    \/ ClearListFilters
    \/ ReportSetStartDate
    \/ ReportSetCategory
    \/ BudgetSetFilterMonth
    \/ DashboardSetSelectedMonth

\* Every page over the same small collections
SpecList == Init /\ [][NextList]_vars

\* The expense form
Digits == {"0", "1", "2", "3", "4", "5", "6", "7", "8", "9"}
DigitValue ==
    [c \in Digits |->
        CASE c = "0" -> 0 [] c = "1" -> 1 [] c = "2" -> 2 [] c = "3" -> 3
          [] c = "4" -> 4 [] c = "5" -> 5 [] c = "6" -> 6 [] c = "7" -> 7
          [] c = "8" -> 8 [] c = "9" -> 9]

\* String.prototype.trim
RECURSIVE TrimStart(_)
TrimStart(s) ==
    IF s # << >> /\ Head(s) = " " THEN TrimStart(Tail(s)) ELSE s
Trim(s) == Reverse(TrimStart(Reverse(TrimStart(s))))

AllDigits(s) == \A i \in 1..Len(s) : s[i] \in Digits

\* the position of the decimal point, 0 if there is none
PointOf(s) ==
    IF \E i \in 1..Len(s) : s[i] = "."
    THEN CHOOSE i \in 1..Len(s) : s[i] = "." /\ \A j \in 1..(i - 1) : s[j] # "."
    ELSE 0

\* /^\d+(\.\d{1,2})?$/.test(s)
MatchesAmountPattern(s) ==
    LET p == PointOf(s)
    IN  IF p = 0 THEN Len(s) >= 1 /\ AllDigits(s)
        ELSE /\ p >= 2
             /\ AllDigits(SubSeq(s, 1, p - 1))
             /\ Len(s) - p \in {1, 2}
             /\ AllDigits(SubSeq(s, p + 1, Len(s)))

RECURSIVE DigitsValue(_)
DigitsValue(s) ==
    IF s = << >> THEN 0
    ELSE 10 * DigitsValue(SubSeq(s, 1, Len(s) - 1)) + DigitValue[s[Len(s)]]

RECURSIVE PowerOfTen(_)
PowerOfTen(n) == IF n = 0 THEN 1 ELSE 10 * PowerOfTen(n - 1)

\* parseFloat(s) of a string of digits with at most one decimal point
ParseFloat(s) ==
    LET p == PointOf(s)
    IN  IF s = << >> THEN NaN
        ELSE IF p = 0 THEN Num(DigitsValue(s), 1)
        ELSE Num(DigitsValue(SubSeq(s, 1, p - 1) \o SubSeq(s, p + 1, Len(s))),
                 PowerOfTen(Len(s) - p))

\* x >= n / d for a number x
AtLeast(x, n, d) == x.kind = "num" /\ x.num * d >= n * x.den

\* the rules registered for the fields: required and minLength read the
\* value as typed; min compares the number typed
DescriptionValid(s) == s # EmptyString /\ Len(s) >= 3
AmountValid(s) ==
    /\ s # EmptyString
    /\ AtLeast(ParseFloat(s), 1, 100)
    /\ MatchesAmountPattern(s)
DateValid(d) == d # EmptyString
FormValid(f) ==
    DescriptionValid(f.description) /\ AmountValid(f.amount) /\ DateValid(f.date)

\* what is typed into the fields
TypedDescriptions ==
    {EmptyString, <<"a", "b">>, <<" ", " ", " ">>, <<" ", "a", "b">>,
     <<"a", " ", "b">>}
TypedAmounts ==
    {EmptyString, <<"0">>, <<"0", ".", "0", "0", "5">>, <<"0", ".", "0", "1">>,
     <<"1", ".", "5">>, <<"1", ".", "2", "5", "5">>, <<"2">>}
TypedDates == {EmptyString, <<2025, 1, 10>>}

SetFormField(field, value) ==
    /\ route = "/expenses"
    /\ form' = [form EXCEPT ![field] = value]
    /\ UNCHANGED <<expenses, budgets, pageVars, storeVars, listVars, payload,
                   cacheVars, modeVars>>
    /\ event' = NoEvent

FormSetDescription == \E s \in TypedDescriptions : SetFormField("description", s)
FormSetAmount == \E s \in TypedAmounts : SetFormField("amount", s)
FormSetCategory == \E c \in Categories : SetFormField("category", c)
FormSetDate == \E d \in TypedDates : SetFormField("date", d)

\* expenseData of onSubmit
ExpenseData(data) ==
    [description |-> Trim(data.description),
     amount |-> ParseFloat(data.amount),
     category |-> data.category,
     date |-> data.date]

\* the Add Expense button, enabled once a category is selected and while no
\* submission is in progress: handleSubmit validates the fields and, if they
\* pass, onSubmit sends expenseData with the create mutation
SubmitExpenseForm ==
    /\ route = "/expenses"
    /\ form.category # ""
    /\ mutation.status # "pending"
    /\ FormValid(form)
    /\ Len(server.expenses) < MaxFormExpenses
    /\ payload' = ExpenseData(form)
    /\ mutation' = [status |-> "pending", resource |-> "expenses",
                    kind |-> "create", sent |-> 1, failureCount |-> 0,
                    data |-> ExpenseData(form)]
    /\ UNCHANGED <<expenses, budgets, pageVars, storeVars, listVars, form, modeVars>>
    /\ event' = NoEvent
    /\ UNCHANGED <<server, cached, invalidated, fetch, toast>>

NextForm ==
    \/ FormSetDescription
    \/ FormSetAmount
    \/ FormSetCategory
    \/ FormSetDate
    \/ SubmitExpenseForm
    \/ MutationSucceeds
    \/ MutationFails

SpecForm == InitAt("/expenses") /\ [][NextForm]_vars

\* Edit mode, the budget form and delete
Undefined == [isUndefined |-> TRUE]

\* the fields of the state useUIStore() returns
StoreFields == {"theme", "setTheme", "selectedMonth", "setSelectedMonth"}

\* const { editingExpenseId, setEditingExpenseId } = useUIStore(): a field the
\* store does not define is undefined
editingExpenseId ==
    IF "editingExpenseId" \in StoreFields THEN Null ELSE Undefined
setEditingExpenseIdIsFunction == "setEditingExpenseId" \in StoreFields

\* editingExpenseId === expense.id: the row of the expense shows the form
ExpenseInEditMode(id) ==
    editingExpenseId \notin {Null, Undefined} /\ editingExpenseId = id

\* editingBudgetId === budget.id: the row of the budget shows the form
BudgetInEditMode(id) == editingBudgetId = id

\* the page that shows the list of a resource
PageOf(r) == IF r = "expenses" THEN "/expenses" ELSE "/budget"

\* the list a page shows: the query's data
Shown(r) == IF r = "expenses" THEN expenses ELSE budgets

\* the edit button of an expense row: handleEdit calls setEditingExpenseId,
\* which is not a function of the store, so the call throws and no state
\* changes
HandleEditExpense(id) ==
    /\ route = "/expenses"
    /\ id \in IdsOf(expenses)
    /\ ~ExpenseInEditMode(id)
    /\ ~setEditingExpenseIdIsFunction
    /\ event' = [name |-> "handleEdit", resource |-> "expenses", id |-> id,
                 confirmed |-> FALSE]
    /\ UNCHANGED <<expenses, budgets, pageVars, storeVars, listVars, formVars,
                   cacheVars, modeVars>>

\* the edit button of a budget row, disabled while a delete is pending
HandleEditBudget(id) ==
    /\ route = "/budget"
    /\ id \in IdsOf(budgets)
    /\ ~BudgetInEditMode(id)
    /\ ~(mutation.status = "pending" /\ mutation.kind = "delete")
    /\ editingBudgetId' = id
    /\ event' = [name |-> "handleEdit", resource |-> "budgets", id |-> id,
                 confirmed |-> FALSE]
    /\ UNCHANGED <<expenses, budgets, pageVars, storeVars, listVars, formVars,
                   cacheVars, budgetForm>>

\* faulty variant: the form is reset but onCancel is not called
CancelBudgetEditKeepsMode ==
    /\ route = "/budget"
    /\ editingBudgetId \in IdsOf(budgets)
    /\ editingBudgetId' = editingBudgetId
    /\ event' = [name |-> "handleCancel", resource |-> "budgets",
                 id |-> editingBudgetId, confirmed |-> FALSE]
    /\ UNCHANGED <<expenses, budgets, pageVars, storeVars, listVars, formVars,
                   cacheVars, budgetForm>>

\* the Cancel button of the form in a budget row: handleCancel
CancelBudgetEdit ==
    /\ route = "/budget"
    /\ editingBudgetId \in IdsOf(budgets)
    /\ editingBudgetId' = NoId
    /\ event' = [name |-> "handleCancel", resource |-> "budgets",
                 id |-> editingBudgetId, confirmed |-> FALSE]
    /\ UNCHANGED <<expenses, budgets, pageVars, storeVars, listVars, formVars,
                   cacheVars, budgetForm>>

\* a number as the budget records hold it: a whole number is an integer
NumberOf(x) == IF x.kind = "num" /\ x.den = 1 THEN x.num ELSE x

\* budgetData of BudgetForm.onSubmit
BudgetData(data) ==
    [category |-> data.category,
     monthlyLimit |-> NumberOf(ParseFloat(data.monthlyLimit)),
     month |-> data.month]

SetBudgetFormField(field, value) ==
    /\ route = "/budget"
    /\ budgetForm' = [budgetForm EXCEPT ![field] = value]
    /\ UNCHANGED <<expenses, budgets, pageVars, storeVars, listVars, formVars,
                   cacheVars, editingBudgetId, event>>

\* the Set Budget button of the form that creates budgets
SubmitBudgetForm ==
    /\ route = "/budget"
    /\ budgetForm.category # ""
    /\ AmountValid(budgetForm.monthlyLimit)
    /\ mutation.status # "pending"
    /\ mutation' = [status |-> "pending", resource |-> "budgets",
                    kind |-> "create", sent |-> 1, failureCount |-> 0,
                    data |-> BudgetData(budgetForm) @@ [spent |-> 0]]
    /\ UNCHANGED <<expenses, budgets, pageVars, storeVars, listVars, formVars,
                   modeVars>>
    /\ event' = NoEvent
    /\ UNCHANGED <<server, cached, invalidated, fetch, toast>>

\* the Update Budget button of the form in a budget row; data holds the
\* values of its fields
SubmitBudgetEdit(data) ==
    /\ route = "/budget"
    /\ editingBudgetId \in IdsOf(budgets)
    /\ data.category # ""
    /\ AmountValid(data.monthlyLimit)
    /\ mutation.status # "pending"
    /\ mutation' = [status |-> "pending", resource |-> "budgets",
                    kind |-> "update", sent |-> 1, failureCount |-> 0,
                    data |-> [id |-> editingBudgetId, data |-> BudgetData(data)]]
    /\ UNCHANGED <<expenses, budgets, pageVars, storeVars, listVars, formVars,
                   modeVars>>
    /\ event' = NoEvent
    /\ UNCHANGED <<server, cached, invalidated, fetch, toast>>

\* faulty variant: the request is sent whatever the answer to the prompt
HandleDeleteUnconfirmed(r, id, confirmed) ==
    /\ route = PageOf(r)
    /\ id \in IdsOf(Shown(r))
    /\ r = "budgets" => ~BudgetInEditMode(id)
    /\ mutation.status # "pending"
    /\ event' = [name |-> "handleDelete", resource |-> r, id |-> id,
                 confirmed |-> confirmed]
    /\ mutation' = [status |-> "pending", resource |-> r, kind |-> "delete",
                    sent |-> 1, failureCount |-> 0, data |-> id]
    /\ UNCHANGED <<expenses, budgets, pageVars, storeVars, listVars, formVars,
                   modeVars>>
    /\ UNCHANGED <<server, cached, invalidated, fetch, toast>>

\* the delete button of a row, disabled while a delete is pending:
\* handleDelete asks window.confirm and sends the request on confirmation
HandleDelete(r, id, confirmed) ==
    /\ route = PageOf(r)
    /\ id \in IdsOf(Shown(r))
    /\ r = "budgets" => ~BudgetInEditMode(id)
    /\ mutation.status # "pending"
    /\ event' = [name |-> "handleDelete", resource |-> r, id |-> id,
                 confirmed |-> confirmed]
    /\ mutation' = IF confirmed
                   THEN [status |-> "pending", resource |-> r, kind |-> "delete",
                         sent |-> 1, failureCount |-> 0, data |-> id]
                   ELSE mutation
    /\ UNCHANGED <<expenses, budgets, pageVars, storeVars, listVars, formVars,
                   modeVars>>
    /\ UNCHANGED <<server, cached, invalidated, fetch, toast>>

\* what is selected and typed in the forms of the edit specification
EditCategories == {"Food"}
EditLimits == {<<"2">>}
EditedBudget ==
    [category : EditCategories, monthlyLimit : {<<"4">>}, month : {CurrentMonth}]

EditMount == MountQuery(IF route = "/expenses" THEN "expenses" ELSE "budgets")
EditSetBudgetCategory ==
    \E c \in EditCategories : SetBudgetFormField("category", c)
EditSetBudgetLimit == \E s \in EditLimits : SetBudgetFormField("monthlyLimit", s)
EditSubmitBudgetForm == Len(server.budgets) < MaxEditBudgets /\ SubmitBudgetForm
EditSubmitBudgetEdit == \E data \in EditedBudget : SubmitBudgetEdit(data)
EditHandleEditBudget == \E id \in IdsOf(budgets) : HandleEditBudget(id)
EditHandleEditExpense == \E id \in IdsOf(expenses) : HandleEditExpense(id)
EditHandleDelete ==
    \E r \in Resources, confirmed \in BOOLEAN :
        \E id \in IdsOf(Shown(r)) : HandleDelete(r, id, confirmed)
EditSetDescription == \E s \in {<<"a", " ", "b">>} : SetFormField("description", s)
EditSetAmount == \E s \in {<<"2">>} : SetFormField("amount", s)
EditSetCategory == \E c \in EditCategories : SetFormField("category", c)
EditSubmitExpenseForm == Len(server.expenses) < MaxEditExpenses /\ SubmitExpenseForm

NextEdit ==
    \/ EditMount
    \/ CacheServerAnswers
    \/ CacheFetchSucceeds
    \/ EditSetBudgetCategory
    \/ EditSetBudgetLimit
    \/ EditSubmitBudgetForm
    \/ EditHandleEditBudget
    \/ CancelBudgetEdit
    \/ EditSubmitBudgetEdit
    \/ EditHandleDelete
    \/ EditHandleEditExpense
    \/ EditSetDescription
    \/ EditSetAmount
    \/ EditSetCategory
    \/ EditSubmitExpenseForm
    \/ MutationSucceeds
    \/ MutationFails

\* The expenses page and the budget page with their forms, edit and delete
\* buttons
SpecEdit ==
    /\ InitAt("/expenses") \/ InitAt("/budget")
    /\ [][NextEdit]_vars

\* the budgets the backend holds when the budget list is opened
ModeBudgets ==
    [i \in 1..MaxModeBudgets |->
        [id |-> i, category |-> IF i % 2 = 1 THEN "Food" ELSE "Transport",
         monthlyLimit |-> 2, month |-> <<2025, i>>, spent |-> 0]]

\* the budget of the row in edit mode
EditingBudget ==
    budgets[CHOOSE i \in 1..Len(budgets) : budgets[i].id = editingBudgetId]

\* the form of the row holds the budget's values (the effect that populates
\* it); the limit is retyped and the form submitted
ModeSubmitBudgetEdit ==
    /\ editingBudgetId \in IdsOf(budgets)
    /\ \E limit \in {<<"2">>, <<"4">>} :
          SubmitBudgetEdit([category |-> EditingBudget.category,
                            monthlyLimit |-> limit,
                            month |-> EditingBudget.month])

NextMode ==
    \/ EditMount
    \/ CacheServerAnswers
    \/ CacheFetchSucceeds
    \/ EditHandleEditBudget
    \/ CancelBudgetEdit
    \/ ModeSubmitBudgetEdit
    \/ MutationSucceeds
    \/ MutationFails

\* The budget list over a backend that holds budgets: edit clicks, updates
\* and cancels
SpecMode ==
    /\ InitWith("/budget", [expenses |-> << >>, budgets |-> ModeBudgets])
    /\ [][NextMode]_vars

BudgetsSetCategory == \E c \in Categories : SetBudgetFormField("category", c)
BudgetsSubmitBudgetForm ==
    Len(server.budgets) < MaxFormBudgets /\ SubmitBudgetForm
BudgetsSubmitBudgetEdit ==
    \E data \in [category : Categories, monthlyLimit : {<<"2">>},
                 month : {CurrentMonth}] : SubmitBudgetEdit(data)
BudgetsHandleDelete ==
    \E id \in IdsOf(budgets), confirmed \in BOOLEAN :
        HandleDelete("budgets", id, confirmed)

NextBudgets ==
    \/ EditMount
    \/ CacheServerAnswers
    \/ CacheFetchSucceeds
    \/ BudgetsSetCategory
    \/ EditSetBudgetLimit
    \/ BudgetsSubmitBudgetForm
    \/ EditHandleEditBudget
    \/ BudgetsSubmitBudgetEdit
    \/ BudgetsHandleDelete
    \/ MutationSucceeds

\* The budget page: budgets created, updated and deleted through its forms
\* and buttons
SpecBudgets == InitAt("/budget") /\ [][NextBudgets]_vars

----------------------------------------------------------------------------
(* Report page: properties *)

\* the filter as the specification words it
PassesFilter(e) ==
    /\ (startDate # EmptyString => ~StrLess(e.date, startDate))
    /\ (endDate # EmptyString => ~StrLess(endDate, e.date))
    /\ (selectedCategory # "" => e.category = selectedCategory)

KeptIndices == {i \in 1..Len(expenses) : PassesFilter(expenses[i])}

\* the sum of f over a finite set of indices
RECURSIVE SumOver(_, _)
SumOver(S, f) ==
    IF S = {} THEN 0
    ELSE LET i == CHOOSE j \in S : TRUE IN f[i] + SumOver(S \ {i}, f)

AmountsOf(E) == [i \in 1..Len(E) |-> E[i].amount]
IndicesOfCategory(E, c) == {i \in 1..Len(E) : E[i].category = c}
CategoryTotal(E, c) == SumOver(IndicesOfCategory(E, c), AmountsOf(E))
FirstOccurrence(E, c) ==
    CHOOSE i \in IndicesOfCategory(E, c) : \A j \in IndicesOfCategory(E, c) : i <= j

\* C1: the filtered list holds exactly the expenses that pass the date and
\* category filters that are set, in the order of the expense list (the k-th
\* kept expense is the k-th filtered one); with no filter set it is the list
C1_FilterIsOrderedSubsequence ==
    LET fe == filteredExpenses
        kept == KeptIndices
    IN  /\ Len(fe) = Cardinality(kept)
        /\ \A i \in kept : fe[Cardinality({j \in kept : j <= i})] = expenses[i]
        /\ (startDate = EmptyString /\ endDate = EmptyString
               /\ selectedCategory = "" => fe = expenses)

C1_Witness ==
    LET fe == filteredExpenses
    IN  /\ startDate # EmptyString /\ endDate # EmptyString
        /\ selectedCategory # ""
        /\ Len(expenses) = 3
        /\ Len(fe) = 2
        /\ fe[1] # fe[2]

\* the YYYY-MM key a label was made from
LabelKey(label) ==
    <<label.year, CHOOSE m \in 1..12 : MonthAbbrev[m] = label.mon>>

\* C4: the monthly series is in ascending order of the YYYY-MM keys
C4_MonthlyInKeyOrder ==
    LET m == reportMetrics
    IN  m # Null =>
            \A i, j \in 1..Len(m.monthlyData) :
                i < j => StrLess(LabelKey(m.monthlyData[i].name),
                                 LabelKey(m.monthlyData[j].name))

C6_CategoriesByValueThenFirstOccurrence ==
    LET m == reportMetrics
        fe == filteredExpenses
    IN  m # Null =>
            LET cd == m.categoryData
            IN  \A i, j \in 1..Len(cd) :
                    i < j =>
                        /\ cd[i].value >= cd[j].value
                        /\ (cd[i].value = cd[j].value =>
                              FirstOccurrence(fe, cd[i].name)
                                  < FirstOccurrence(fe, cd[j].name))

C6_Witness ==
    LET m == reportMetrics
    IN  /\ m # Null
        /\ Len(m.categoryData) = 2
        /\ m.categoryData[1].value = m.categoryData[2].value
        /\ m.expenseCount = 3

\* C7 as stated: with an expense passing the filter the top category is the
\* head of the category list and no category has a larger total; with none
\* passing, the Top Category card shows N/A
C7_TopCategoryOrNA ==
    LET m == reportMetrics
        fe == filteredExpenses
    IN  /\ Len(fe) > 0 =>
              /\ m.topCategory = m.categoryData[1]
              /\ \A k \in 1..Len(fe) :
                    CategoryTotal(fe, fe[k].category) <= m.topCategory.value
        /\ Len(fe) = 0 => TopCategoryCard(m) = "N/A"

\* C7 amended: with none passing, reportMetrics is null as a whole, so no top
\* category exists and the card is not rendered; no category is ever shown
C7_TopCategoryOrNoMetrics ==
    LET m == reportMetrics
        fe == filteredExpenses
    IN  /\ Len(fe) > 0 =>
              /\ m.topCategory = m.categoryData[1]
              /\ TopCategoryCard(m) = m.categoryData[1].name
              /\ \A k \in 1..Len(fe) :
                    CategoryTotal(fe, fe[k].category) <= m.topCategory.value
        /\ Len(fe) = 0 =>
              /\ m = Null
              /\ TopCategoryCard(m) = "not rendered"

C7_Witness ==
    LET m == reportMetrics
        fe == filteredExpenses
    IN  /\ Len(fe) = 3
        /\ Len(m.categoryData) = 2
        /\ m.categoryData[1].value > m.categoryData[2].value
        /\ fe[1].category # m.topCategory.name

ExampleExpenses ==
    <<[amount |-> 10, category |-> "Food", date |-> <<2025, 8, 1>>],
      [amount |-> 20, category |-> "Food", date |-> <<2025, 8, 15>>],
      [amount |-> 5, category |-> "Transport", date |-> <<2025, 8, 2>>]>>

----------------------------------------------------------------------------
(* Budget list: properties *)

\* the expenses of a budget's category dated in the budget's month
InScope(E, b) ==
    {i \in 1..Len(E) : E[i].category = b.category /\ MonthOf(E[i].date) = b.month}

PassingMonthFilter ==
    {i \in 1..Len(budgets) :
        filterMonth = EmptyString \/ budgets[i].month = filterMonth}

ExampleBudget ==
    [id |-> 1, category |-> "Food", monthlyLimit |-> 100, month |-> <<2025, 8>>,
     spent |-> 0]
ExampleOverspend ==
    <<[amount |-> 90, category |-> "Food", date |-> <<2025, 8, 1>>],
      [amount |-> 60, category |-> "Food", date |-> <<2025, 8, 15>>],
      [amount |-> 7, category |-> "Transport", date |-> <<2025, 8, 2>>],
      [amount |-> 9, category |-> "Food", date |-> <<2025, 7, 31>>]>>

\* C2: for a displayed budget with a positive limit, actualSpent is the sum of
\* the expenses of its category and month, remaining = limit - actualSpent,
\* isOverBudget iff actualSpent > limit, and percentageUsed =
\* min(100, actualSpent / limit * 100); every budget passing the month filter
\* is displayed; limit 100 with 150 in scope gives 150, -50, true, 100
C2_BudgetProgress ==
    LET shown == budgetsWithSpending
        x == BudgetProgress(ExampleBudget, ExampleOverspend)
    IN  /\ \A k \in 1..Len(shown) :
              LET d == shown[k]
                  spent == SumOver(InScope(expenses, d), AmountsOf(expenses))
                  pct == d.percentageUsed
              IN  d.monthlyLimit > 0 =>
                      /\ d.actualSpent = spent
                      /\ d.remaining = d.monthlyLimit - spent
                      /\ d.isOverBudget <=> spent > d.monthlyLimit
                      /\ pct.kind = "num"
                      /\ IF spent <= d.monthlyLimit
                         THEN pct.num * d.monthlyLimit = 100 * spent * pct.den
                         ELSE pct.num = 100 /\ pct.den = 1
        /\ \A i \in PassingMonthFilter :
              \E k \in 1..Len(shown) : shown[k].id = budgets[i].id
        /\ x.actualSpent = 150
        /\ x.remaining = -50
        /\ x.isOverBudget
        /\ x.percentageUsed = [kind |-> "num", num |-> 100, den |-> 1]

C2_Witness ==
    LET shown == budgetsWithSpending
    IN  /\ Len(expenses) = 2
        /\ Len(shown) = 1
        /\ shown[1].monthlyLimit = 4
        /\ shown[1].actualSpent = 1
        /\ filterMonth # EmptyString

\* may a come before b in the ranking: by month (newest first), then over
\* budget first, then the larger percentage, then the order of the input list
\* (which is the order of the ids); two percentages of which one is no number
\* are not compared
RankedBefore(a, b) ==
    IF a.month # b.month THEN StrLess(b.month, a.month)
    ELSE IF a.isOverBudget # b.isOverBudget THEN a.isOverBudget
    ELSE IF a.percentageUsed.kind # "num" \/ b.percentageUsed.kind # "num" THEN TRUE
    ELSE LET l == a.percentageUsed.num * b.percentageUsed.den
             r == b.percentageUsed.num * a.percentageUsed.den
         IN  l > r \/ (l = r /\ a.id < b.id)

\* C3: the displayed list is a permutation of the budgets passing the month
\* filter, ordered by month descending, over-budget budgets first, percentage
\* used descending, ties in input order
C3_RankingIsStableThreeKeySort ==
    LET shown == budgetsWithSpending
    IN  /\ Len(shown) = Cardinality(PassingMonthFilter)
        /\ {shown[k].id : k \in 1..Len(shown)}
              = {budgets[i].id : i \in PassingMonthFilter}
        /\ \A i, j \in 1..Len(shown) : i < j => RankedBefore(shown[i], shown[j])

\* the ranking claim on the lists whose percentages are all numbers
RankingOfNumbersHolds ==
    (\A i \in 1..Len(budgets) : budgets[i].monthlyLimit > 0)
        => C3_RankingIsStableThreeKeySort

\* C10: a displayed budget with monthlyLimit 0 has percentageUsed = 0 and
\* isOverBudget = (actualSpent > 0)
C10_ZeroLimit ==
    LET shown == budgetsWithSpending
    IN  \A k \in 1..Len(shown) :
            shown[k].monthlyLimit = 0 =>
                /\ shown[k].percentageUsed = [kind |-> "num", num |-> 0, den |-> 1]
                /\ shown[k].isOverBudget <=> shown[k].actualSpent > 0

\* the part of C10 the code keeps: isOverBudget = (actualSpent > 0)
ZeroLimitOverBudgetHolds ==
    LET shown == budgetsWithSpending
    IN  \A k \in 1..Len(shown) :
            shown[k].monthlyLimit = 0 =>
                (shown[k].isOverBudget <=> shown[k].actualSpent > 0)

----------------------------------------------------------------------------
(* Empty input *)

\* C9 as stated: with no expense passing a filter, the report has zero
\* metrics and empty groupings, and so have the dashboard, the budget
\* progress and the month options
C9_EmptyInputYieldsZeroMetrics ==
    LET m == reportMetrics
        dm == dashboardMetrics
        shown == budgetsWithSpending
    IN  /\ Len(filteredExpenses) = 0 =>
              /\ m # Null
              /\ m.totalSpent = 0
              /\ m.expenseCount = 0
              /\ m.categoryData = << >>
              /\ m.monthlyData = << >>
        /\ (\A i \in 1..Len(expenses) : MonthOf(expenses[i].date) # selectedMonth) =>
              /\ dm.totalMonthlySpend = 0
              /\ dm.categoryData = << >>
              /\ dm.remainingBudget = dm.totalBudget
        /\ Len(expenses) = 0 =>
              /\ dm.categoriesCount = 0
              /\ dm.recentExpenses = << >>
              /\ monthOptions = << >>
        /\ \A k \in 1..Len(shown) :
              InScope(expenses, shown[k]) = {} =>
                  /\ shown[k].actualSpent = 0
                  /\ shown[k].remaining = shown[k].monthlyLimit
                  /\ ~shown[k].isOverBudget

\* C9 amended: with no expense passing the report filter reportMetrics is null
\* (the page shows its no-data card); the dashboard, the budget progress and
\* the month options yield zero sums and empty groupings
C9_EmptyInputYieldsEmptyResults ==
    LET m == reportMetrics
        dm == dashboardMetrics
        shown == budgetsWithSpending
    IN  /\ Len(filteredExpenses) = 0 => m = Null
        /\ (\A i \in 1..Len(expenses) : MonthOf(expenses[i].date) # selectedMonth) =>
              /\ dm.totalMonthlySpend = 0
              /\ dm.categoryData = << >>
              /\ dm.remainingBudget = dm.totalBudget
        /\ Len(expenses) = 0 =>
              /\ dm.categoriesCount = 0
              /\ dm.recentExpenses = << >>
              /\ monthOptions = << >>
        /\ \A k \in 1..Len(shown) :
              InScope(expenses, shown[k]) = {} =>
                  /\ shown[k].actualSpent = 0
                  /\ shown[k].remaining = shown[k].monthlyLimit
                  /\ ~shown[k].isOverBudget

C9_Witness ==
    /\ route = "/report"
    /\ Len(expenses) > 0
    /\ Len(filteredExpenses) = 0
    /\ selectedCategory # ""
    /\ Len(budgetsWithSpending) > 0
    /\ InScope(expenses, budgetsWithSpending[1]) = {}
    /\ MonthOf(expenses[1].date) # selectedMonth

----------------------------------------------------------------------------
(* Report page: category partition *)

----------------------------------------------------------------------------
(* Dashboard: properties *)

LimitsOf(B) == [i \in 1..Len(B) |-> B[i].monthlyLimit]

\* C12: totalMonthlySpend sums exactly the expenses dated in the selected
\* month, totalBudget sums the limits of exactly the budgets of that month,
\* remainingBudget is their difference and the over-budget indicator is shown
\* iff remainingBudget < 0
C12_DashboardMonthView ==
    LET dm == dashboardMetrics
        inMonth == {i \in 1..Len(expenses) : MonthOf(expenses[i].date) = selectedMonth}
        ofMonth == {i \in 1..Len(budgets) : budgets[i].month = selectedMonth}
        spend == SumOver(inMonth, AmountsOf(expenses))
        limit == SumOver(ofMonth, LimitsOf(budgets))
    IN  /\ dm.totalMonthlySpend = spend
        /\ dm.totalBudget = limit
        /\ dm.remainingBudget = limit - spend
        /\ isOverBudget <=> dm.remainingBudget < 0
        /\ isOverBudget <=> spend > limit

C12_Witness ==
    /\ selectedMonth = <<2025, 1>>
    /\ Len(expenses) = 2
    /\ Len(budgets) = 2
    /\ budgets[1].month # budgets[2].month
    /\ dashboardMetrics.totalMonthlySpend = 3
    /\ dashboardMetrics.totalBudget = 2
    /\ isOverBudget

\* C13: the months offered on the dashboard are exactly the distinct YYYY-MM
\* prefixes of the expense dates, each once, in strictly descending order
C13_MonthOptionsDistinctDescending ==
    LET o == monthOptions
    IN  /\ {o[i].value : i \in 1..Len(o)}
              = {SubSeq(expenses[i].date, 1, 2) : i \in 1..Len(expenses)}
        /\ \A i, j \in 1..Len(o) : i < j => StrLess(o[j].value, o[i].value)
        /\ Len(o) = Cardinality({SubSeq(expenses[i].date, 1, 2) : i \in 1..Len(expenses)})

C13_Witness ==
    /\ Len(expenses) = 2
    /\ expenses[1].date = <<2025, 1, 10>>
    /\ expenses[2].date = <<2025, 2, 5>>
    /\ Len(monthOptions) = 2
    /\ monthOptions[1].value = <<2025, 2>>

\* the values a stored spent field may hold
StoredSpent == {0, 3}

WithSpent(B, s) == [i \in 1..Len(B) |-> [B[i] EXCEPT !.spent = s[i]]]

\* what the budget list displays of its budgets, in display order
DisplayedProgress(B, E, month) ==
    LET shown == BudgetsWithSpending(B, E, month)
    IN  [k \in 1..Len(shown) |->
            [id |-> shown[k].id,
             actualSpent |-> shown[k].actualSpent,
             remaining |-> shown[k].remaining,
             percentageUsed |-> shown[k].percentageUsed,
             isOverBudget |-> shown[k].isOverBudget]]

\* C14: two budget collections that differ only in the stored spent of their
\* budgets give, with the same expenses, the same budget progress, the same
\* ranking and the same dashboard metrics
C14_StoredSpentIgnored ==
    LET displayed == [month \in BudgetMonths \cup {EmptyString} |->
                         DisplayedProgress(budgets, expenses, month)]
        metrics == dashboardMetrics
    IN  \A s \in [1..Len(budgets) -> StoredSpent] :
            LET other == WithSpent(budgets, s)
            IN  /\ \A month \in BudgetMonths \cup {EmptyString} :
                      DisplayedProgress(other, expenses, month) = displayed[month]
                /\ DashboardMetrics(expenses, other, selectedMonth) = metrics

C14_Witness ==
    /\ Len(budgets) = 2
    /\ Len(expenses) = 2
    /\ budgets[1].month = budgets[2].month
    /\ budgetsWithSpending[1].id = 2
    /\ budgetsWithSpending[1].isOverBudget
    /\ budgetsWithSpending[2].actualSpent = 0
    /\ dashboardMetrics.totalBudget = 4

----------------------------------------------------------------------------
(* UI store: persistence *)

----------------------------------------------------------------------------
(* Query cache: properties *)

\* C16: the step in which a mutation succeeds leaves every cached query whose
\* key starts with the mutation's resource ('expenses' or 'budgets') marked
\* invalidated: the list, the filtered lists and the details
C16_InvalidationAfterMutation ==
    [][(mutation.status = "pending" /\ mutation'.status = "success")
          => \A k \in cached' : k[1] = mutation.resource => k \in invalidated']_vars

C16_Witness ==
    /\ mutation.status = "success"
    /\ mutation.resource = "expenses"
    /\ mutation.kind = "delete"
    /\ {ListKey("expenses"), FilteredListKey("expenses")} \subseteq invalidated
    /\ DetailKey("budgets", 1) \in cached \ invalidated
    /\ fetch["expenses"].status = "fetching"

\* the expense list query holds data that is neither invalidated nor being
\* fetched
ExpensesSettled ==
    /\ ListKey("expenses") \in cached
    /\ ListKey("expenses") \notin invalidated
    /\ fetch["expenses"].status = "success"

\* C18: a successful expense mutation starts a refetch of the expense list,
\* and once the list is fetched and not invalidated, the dashboard totals, the
\* budget progress and the report metrics are those of the backend's expense
\* set
C18_UpdatesPropagate ==
    /\ [](ExpensesSettled =>
            /\ expenses = server.expenses
            /\ dashboardMetrics
                  = DashboardMetrics(server.expenses, budgets, selectedMonth)
            /\ budgetsWithSpending
                  = BudgetsWithSpending(budgets, server.expenses, filterMonth)
            /\ reportMetrics
                  = ReportMetrics(FilterReport(server.expenses, startDate,
                                               endDate, selectedCategory)))
    /\ [][(/\ mutation.status = "pending"
           /\ mutation'.status = "success"
           /\ mutation.resource = "expenses"
           /\ ListKey("expenses") \in cached)
             => (/\ fetch'["expenses"].status = "fetching"
                 /\ fetch'["expenses"].response = Null)]_vars

C18_Witness ==
    /\ mutation.status = "success"
    /\ mutation.resource = "expenses"
    /\ mutation.kind = "delete"
    /\ ExpensesSettled
    /\ Len(server.expenses) = 1
    /\ expenses = server.expenses
    /\ dashboardMetrics.totalMonthlySpend = 2

\* C17: a failing read of a list is retried 3 times before its error is
\* surfaced (4 requests fail), and never more; a mutation is sent once, never
\* again, and its failure shows an error notification
C17_RetryPolicy ==
    /\ \A r \in Resources :
          /\ fetch[r].status = "fetching" => fetch[r].failureCount <= 3
          /\ fetch[r].status = "error" => fetch[r].failureCount = 4
          /\ fetch[r].failureCount <= 4
    /\ mutation.sent <= 1
    /\ mutation.status \in {"pending", "success", "error"} => mutation.sent = 1
    /\ mutation.status = "error" =>
          toast = [kind |-> "error", resource |-> mutation.resource,
                   action |-> mutation.kind]

C17_Witness ==
    /\ fetch["expenses"].status = "error"
    /\ fetch["expenses"].failureCount = 4
    /\ fetch["budgets"].status = "success"
    /\ mutation.status = "error"
    /\ mutation.kind = "delete"
    /\ mutation.sent = 1
    /\ toast.kind = "error"

\* C15: computing the views of any page (the filtered and sorted expense
\* list, the report's filter and breakdowns, the budget progress with its
\* ranking, the dashboard metrics and the month options) leaves the fetched
\* expenses and budgets as they were, in content and order
C15_InputsNotModified ==
    LET list == filteredAndSortedExpenses
        report == ReportArrays(expenses, startDate, endDate, selectedCategory)
        progress == BudgetArrays(budgets, expenses, filterMonth)
        dashboard == DashboardArrays(expenses, budgets, selectedMonth)
        months == MonthOptionArrays(expenses,
                      [i \in 1..Len(expenses) |-> MonthOf(expenses[i].date)])
        budgetMonths == MonthOptionArrays(budgets,
                      [i \in 1..Len(budgets) |-> budgets[i].month])
    IN  /\ list.input = expenses
        /\ report.input = expenses
        /\ progress.expenses = expenses
        /\ progress.budgets = budgets
        /\ dashboard.expenses = expenses
        /\ dashboard.budgets = budgets
        /\ months.input = expenses
        /\ budgetMonths.input = budgets
        /\ report.filteredExpenses = filteredExpenses
        /\ progress.budgetsWithSpending = budgetsWithSpending
        /\ dashboard.recentExpenses = dashboardMetrics.recentExpenses
        /\ months.uniqueMonths = [i \in 1..Len(monthOptions) |-> monthOptions[i].value]

C15_Witness ==
    /\ route = "/expenses"
    /\ Len(expenses) = 2
    /\ searchTerm = <<"B">>
    /\ sortBy = "description"
    /\ sortOrder = "asc"
    /\ Len(filteredAndSortedExpenses.val) = 2
    /\ filteredAndSortedExpenses.val = Reverse(expenses)
    /\ filteredAndSortedExpenses.input = expenses

\* C20: every expense the form sends has a non-empty description, an amount
\* of at least 0.01 with at most two decimal places, and a category of the
\* fetched category list
C20_SubmittedExpensesWellFormed ==
    payload # Null =>
        /\ payload.description # EmptyString
        /\ AtLeast(payload.amount, 1, 100)
        /\ (100 * payload.amount.num) % payload.amount.den = 0
        /\ payload.category \in Categories

\* the part of C20 about amount and category
C20_AmountAndCategoryWellFormed ==
    payload # Null =>
        /\ AtLeast(payload.amount, 1, 100)
        /\ (100 * payload.amount.num) % payload.amount.den = 0
        /\ payload.category \in Categories

----------------------------------------------------------------------------
(* Budget list: consistency of the progress values *)

\* C27: for every displayed budget with monthlyLimit > 0, percentageUsed is a
\* number from 0 to 100, isOverBudget holds exactly when remaining < 0, and an
\* over-budget budget has percentageUsed = 100
C27_ProgressSelfConsistent ==
    LET shown == budgetsWithSpending
    IN  \A k \in 1..Len(shown) :
            LET d == shown[k]
                pct == d.percentageUsed
            IN  d.monthlyLimit > 0 =>
                    /\ pct.kind = "num"
                    /\ pct.num >= 0
                    /\ pct.num <= 100 * pct.den
                    /\ d.isOverBudget <=> d.remaining < 0
                    /\ d.isOverBudget => pct = [kind |-> "num", num |-> 100, den |-> 1]

C27_Witness ==
    LET shown == budgetsWithSpending
    IN  /\ Len(shown) = 1
        /\ shown[1].monthlyLimit = 2
        /\ shown[1].actualSpent = 3
        /\ shown[1].isOverBudget
        /\ shown[1].remaining = -1

----------------------------------------------------------------------------
(* Dashboard and budget list *)

\* the budgets of the selected month
BudgetsOfSelectedMonth == {i \in 1..Len(budgets) : budgets[i].month = selectedMonth}

\* at most one budget per category in the selected month, and every expense
\* dated in it has a category with a budget for it
SelectedMonthCovered ==
    /\ \A i, j \in BudgetsOfSelectedMonth :
          budgets[i].category = budgets[j].category => i = j
    /\ \A n \in 1..Len(expenses) :
          StartsWith(expenses[n].date, selectedMonth) =>
              \E i \in BudgetsOfSelectedMonth :
                  budgets[i].category = expenses[n].category

NoneOverBudget ==
    LET shown == BudgetsWithSpending(budgets, expenses, EmptyString)
    IN  \A k \in 1..Len(shown) :
            shown[k].month = selectedMonth => ~shown[k].isOverBudget

----------------------------------------------------------------------------
(* Dashboard: recent expenses *)

\* C24: the recent list holds min(5, number of expenses) expenses and no
\* expense outside it has a later date than an expense inside it, whatever
\* the order of the fetched expenses
C24_RecentAreMostRecent ==
    LET recent == dashboardMetrics.recentExpenses
    IN  /\ Len(recent) = Min(5, Len(expenses))
        /\ \A i \in 1..Len(recent) :
              \A j \in (Len(recent) + 1)..Len(expenses) :
                  ~StrLess(recent[i].date, expenses[j].date)

\* the part of C24 about the length of the list
RecentListLengthHolds ==
    Len(dashboardMetrics.recentExpenses) = Min(5, Len(expenses))

----------------------------------------------------------------------------
(* Report page: the date range *)

\* C23: on the report page, whenever both dates are set the end date is not
\* earlier than the start date
C23_EndNotBeforeStart ==
    (route = "/report" /\ startDate # EmptyString /\ endDate # EmptyString)
        => StrLeq(startDate, endDate)

----------------------------------------------------------------------------
(* Expense list: filter and sort *)

\* does the description contain the term, whatever the case of the letters
ContainsIgnoringCase(description, term) ==
    \E start \in 0..(Len(description) - Len(term)) :
        \A k \in 1..Len(term) :
            LowerOf[description[start + k]] = LowerOf[term[k]]

ShownInList(expense) ==
    /\ ContainsIgnoringCase(expense.description, searchTerm)
    /\ filterCategory # "" => expense.category = filterCategory

Occurrences(s, x) == Cardinality({i \in 1..Len(s) : s[i] = x})

\* a comes no later than b by the chosen key, read in ascending direction
NotAfter(a, b) ==
    IF sortBy = "date" THEN StrLeq(a.date, b.date)
    ELSE IF sortBy = "amount" THEN a.amount <= b.amount
    ELSE LocaleCompare(a.description, b.description) <= 0

ListDefaults ==
    /\ searchTerm = EmptyString
    /\ filterCategory = ""
    /\ sortBy = "date"
    /\ sortOrder = "desc"

ListShowsMatchesInOrder ==
    LET shown == filteredAndSortedExpenses.val
    IN  /\ \A x \in Range(expenses) \cup Range(shown) :
              Occurrences(shown, x)
                  = (IF ShownInList(x) THEN Occurrences(expenses, x) ELSE 0)
        /\ \A i, j \in 1..Len(shown) :
              i < j => IF sortOrder = "asc" THEN NotAfter(shown[i], shown[j])
                       ELSE NotAfter(shown[j], shown[i])

----------------------------------------------------------------------------
(* Budget page: properties of the forms, edit mode and delete *)

\* no two records of a list of budgets have the same category and month
UniquePerCategoryAndMonth(list) ==
    \A i, j \in 1..Len(list) :
        (list[i].category = list[j].category /\ list[i].month = list[j].month)
            => i = j

\* C21: after any creations, updates and deletions made through the budget
\* form there is at most one budget for each (category, month) pair, in the
\* backend's collection and in the list the page shows
C21_BudgetUniqueness ==
    UniquePerCategoryAndMonth(server.budgets) /\ UniquePerCategoryAndMonth(budgets)

\* C22: a click on the edit button of an expense row puts that expense into
\* edit mode (its row shows the edit form)
C22_EditClickEntersEditMode ==
    [][(event'.name = "handleEdit" /\ event'.resource = "expenses")
          => ExpenseInEditMode(event'.id)]_vars

\* the rows of the budget list that show the edit form
RowsInEditMode == {i \in 1..Len(budgets) : BudgetInEditMode(budgets[i].id)}

AtMostOneInEditMode == Cardinality(RowsInEditMode) <= 1

\* C29: at most one budget is in edit mode; an edit click on budget b makes
\* b the one in edit mode; a cancel or a successful update leaves no budget
\* in edit mode
C29_BudgetEditMode ==
    /\ []AtMostOneInEditMode
    /\ [][/\ (event'.name = "handleEdit" /\ event'.resource = "budgets")
                => /\ editingBudgetId' = event'.id
                   /\ \A i \in 1..Len(budgets') :
                         (budgets'[i].id = editingBudgetId')
                             <=> (budgets'[i].id = event'.id)
                   /\ \E i \in 1..Len(budgets') : budgets'[i].id = event'.id
          /\ event'.name = "handleCancel" => editingBudgetId' = NoId
          /\ (/\ mutation.status = "pending"
              /\ mutation.resource = "budgets"
              /\ mutation.kind = "update"
              /\ mutation'.status = "success") => editingBudgetId' = NoId
       ]_vars

\* the second budget was put in edit mode after an update of another had
\* succeeded
C29_Witness ==
    /\ event.name = "handleEdit"
    /\ event.id = 2
    /\ BudgetInEditMode(2)
    /\ Len(budgets) = 2
    /\ mutation.status = "success"
    /\ mutation.kind = "update"

\* the delete request of a row: a pending delete mutation, sent once
DeleteRequest(r, id) ==
    [status |-> "pending", resource |-> r, kind |-> "delete", sent |-> 1,
     failureCount |-> 0, data |-> id]

\* a delete request is issued in the step
DeleteIssued ==
    /\ mutation'.status = "pending"
    /\ mutation'.kind = "delete"
    /\ mutation' # mutation

\* C25: a delete request for an expense or a budget is issued if and only
\* if the user confirms the prompt; when the user declines no request is
\* sent, no query is invalidated or refetched and the displayed collection
\* is unchanged
C25_DeleteNeedsConfirmation ==
    [][/\ (event'.name = "handleDelete" /\ event'.confirmed)
             => mutation' = DeleteRequest(event'.resource, event'.id)
       /\ (event'.name = "handleDelete" /\ ~event'.confirmed)
             => UNCHANGED <<mutation, server, invalidated, fetch, cached,
                            expenses, budgets, toast>>
       /\ DeleteIssued
             => /\ event'.name = "handleDelete"
                /\ event'.confirmed
                /\ event'.resource = mutation'.resource
                /\ event'.id = mutation'.data
      ]_vars

\* the prompt for a listed budget was declined after an earlier mutation had
\* succeeded
C25_Witness ==
    /\ event.name = "handleDelete"
    /\ ~event.confirmed
    /\ event.resource = "budgets"
    /\ event.id \in IdsOf(budgets)
    /\ mutation.status = "success"

\* the request of the mutation in flight fails for good in the step
MutationFailed == mutation.status = "pending" /\ mutation'.status = "error"

\* C28: when a create, update or delete request fails no query is
\* invalidated or refetched, the notification shown is not a success
\* notification, the forms that create records are not reset and a budget
\* in edit mode stays in edit mode
C28_FailedMutationChangesNothing ==
    [][MutationFailed
          => /\ UNCHANGED <<invalidated, fetch, cached, server, expenses, budgets>>
             /\ UNCHANGED <<form, budgetForm, editingBudgetId>>
             /\ toast'.kind # "success"
             /\ toast' = [kind |-> "error", resource |-> mutation.resource,
                          action |-> mutation.kind]
      ]_vars

\* the update of the budget in edit mode has failed while the form that
\* creates budgets was filled in
C28_Witness ==
    /\ mutation.status = "error"
    /\ mutation.kind = "update"
    /\ mutation.resource = "budgets"
    /\ editingBudgetId \in IdsOf(budgets)
    /\ budgetForm.category = "Food"
    /\ budgetForm.monthlyLimit = <<"2">>
    /\ toast.kind = "error"

====
